---- MODULE Spec2Model ----
(***************************************************************************)
(* Order-management backend: the stock-reservation and order-mutation      *)
(* protocol of app/services/order_servise.py over a relational store with  *)
(* row-level locking (SELECT ... FOR UPDATE, READ COMMITTED).              *)
(*                                                                         *)
(* The committed database is nomenclatures / orders / order_items.  Every  *)
(* request owns one session (one transaction); what a session has loaded   *)
(* or changed and not yet committed lives in the per-transaction variables *)
(* (nomenclature_map, existing_item, new_items, order_db).  Prices are     *)
(* fixed-point with two decimals and are modelled as integer cents.        *)
(***************************************************************************)
EXTENDS Integers, Sequences, FiniteSets, TLC

\* ------------------------------------------------------------------ bounds
NumTxns == 2          \* requests (sessions) in one run
MaxQuantity == 2      \* largest quantity a request line asks for
MaxLines == 2         \* most lines in one create-full-order request
InitQuantity == 3     \* on-hand quantity of every nomenclature at start
MaxPriceChanges == 1  \* catalog price updates in one run
MaxStored == 3        \* most rows in the table of the generic accessor

Txns == 1..NumTxns

\* ------------------------------------------------------------- seed data
\* Rows present at start (app/scripts/seed_db.py, scaled down): one client,
\* two nomenclatures, one order of that client holding one line for
\* nomenclature 1.
ClientIds == {1}
NomIds == {1, 2}
Prices == {100, 150}

InitPrice == [n \in NomIds |-> 100]
InitOrders == {[id |-> 1, client_id |-> 1]}
InitOrderItems ==
    << [order_id |-> 1, nomenclature_id |-> 1, quantity |-> 1,
        price_at_purchase |-> 100] >>

\* Identities a request may name: the rows above, an order identity that
\* exists only once a create-full-order has committed, and identities with
\* no row at all.
OrderIdInputs == {1, 2}
NomIdInputs == {1, 2, 3}
ClientIdInputs == {1, 2}
Quantities == 1..MaxQuantity

\* ---------------------------------------------------------------- state
VARIABLES
    nomenclatures,     \* committed rows: id -> [quantity, price]
    orders,            \* committed rows: set of [id, client_id]
    order_items,       \* committed rows in insertion order; index = id
    order_seq,         \* last value handed out by the orders id sequence
    nom_lock,          \* row locks of nomenclatures: set of <<id, txn>>
    item_lock,         \* row locks of order items: set of <<id, txn>>
    pc,                \* position of each request
    req,               \* input of each request
    nomenclature_map,  \* session: loaded Nomenclature objects, id -> row
    existing_item,     \* session: loaded OrderItem [id, quantity], id 0 = none
    new_items,         \* session: OrderItem objects added, not yet inserted
    order_db,          \* session: id of the flushed Order, 0 = none
    outcome,           \* what the request ended with
    price_changes      \* catalog price updates so far

vars == << nomenclatures, orders, order_items, order_seq, nom_lock, item_lock,
           pc, req, nomenclature_map, existing_item, new_items, order_db,
           outcome, price_changes >>

db == << nomenclatures, orders, order_items >>
session == << nomenclature_map, existing_item, new_items, order_db >>

NoReq == [op |-> "none"]
NoOutcome == [kind |-> "none"]
NoItem == [id |-> 0, quantity |-> 0]
EmptyMap == [n \in {} |-> 0]

AddRequests ==
    [op : {"add"}, order_id : OrderIdInputs, nomenclature_id : NomIdInputs,
     quantity : Quantities]

OrderLine == [nomenclature_id : NomIdInputs, quantity : Quantities]

LineSeqs == UNION {[1..k -> OrderLine] : k \in 0..MaxLines}

CreateRequests == [op : {"create"}, client_id : ClientIdInputs, items : LineSeqs]

Init ==
    /\ nomenclatures = [n \in NomIds |-> [quantity |-> InitQuantity, price |-> InitPrice[n]]]
    /\ orders = InitOrders
    /\ order_items = InitOrderItems
    /\ order_seq = 1
    /\ nom_lock = {}
    /\ item_lock = {}
    /\ pc = [t \in Txns |-> "idle"]
    /\ req = [t \in Txns |-> NoReq]
    /\ nomenclature_map = [t \in Txns |-> EmptyMap]
    /\ existing_item = [t \in Txns |-> NoItem]
    /\ new_items = [t \in Txns |-> << >>]
    /\ order_db = [t \in Txns |-> 0]
    /\ outcome = [t \in Txns |-> NoOutcome]
    /\ price_changes = 0

\* ------------------------------------------------------------- helpers
OrderExists(o) == \E r \in orders : r.id = o

\* Identities of the order items of one (order, nomenclature) pair.
ItemIdsIn(items, o, n) ==
    {i \in 1..Len(items) : items[i].order_id = o /\ items[i].nomenclature_id = n}

ItemIdsOf(o, n) == ItemIdsIn(order_items, o, n)

\* Sum of f[i] over i in 1..k.
RECURSIVE SumTo(_, _)
SumTo(f, k) == IF k = 0 THEN 0 ELSE f[k] + SumTo(f, k - 1)

\* Whether some transaction holds the row lock of nomenclature n.
NomLocked(n) == \E l \in nom_lock : l[1] = n

\* Variant of Rollback: the session's objects are discarded but the row
\* locks of the transaction stay.
RollbackKeepsLocks(t) ==
    /\ UNCHANGED << nom_lock, item_lock >>
    /\ nomenclature_map' = [nomenclature_map EXCEPT ![t] = EmptyMap]
    /\ existing_item' = [existing_item EXCEPT ![t] = NoItem]
    /\ new_items' = [new_items EXCEPT ![t] = << >>]
    /\ order_db' = [order_db EXCEPT ![t] = 0]

\* The session ends without commit: every uncommitted change is discarded
\* and every row lock of the transaction is released.
Rollback(t) ==
    /\ nom_lock' = {l \in nom_lock : l[2] # t}
    /\ item_lock' = {l \in item_lock : l[2] # t}
    /\ nomenclature_map' = [nomenclature_map EXCEPT ![t] = EmptyMap]
    /\ existing_item' = [existing_item EXCEPT ![t] = NoItem]
    /\ new_items' = [new_items EXCEPT ![t] = << >>]
    /\ order_db' = [order_db EXCEPT ![t] = 0]

\* A raised exception leaves the handler; the session is closed uncommitted.
Raise(t, exc) ==
    /\ pc' = [pc EXCEPT ![t] = "aborted"]
    /\ outcome' = [outcome EXCEPT ![t] = exc]
    /\ Rollback(t)
    /\ UNCHANGED << db, order_seq, req, price_changes >>

OrderNotFoundError(o) == [kind |-> "OrderNotFound", order_id |-> o]

NomenclatureNotFoundError(n) == [kind |-> "NomenclatureNotFound", nomenclature_id |-> n]

\* Variant of InsufficientStockError: the two quantities passed in each
\* other's place.
InsufficientStockErrorSwapped(n, available, requested) ==
    [kind |-> "InsufficientStock", nomenclature_id |-> n,
     available_quantity |-> requested, requested_quantity |-> available]

InsufficientStockError(n, available, requested) ==
    [kind |-> "InsufficientStock", nomenclature_id |-> n,
     available_quantity |-> available, requested_quantity |-> requested]

\* ------------------------------------------------- transport boundary
\* The status codes of the add-item endpoint and of the exception handlers
\* registered on the application.
HTTP_201_CREATED == 201
HTTP_400_BAD_REQUEST == 400
HTTP_404_NOT_FOUND == 404

insufficient_stock_exception_handler(exc) == HTTP_400_BAD_REQUEST

\* Variant of order_not_found_exception_handler: the status of the
\* insufficient-stock handler is used for this error as well.
order_not_found_exception_handlerBadRequest(exc) == HTTP_400_BAD_REQUEST

order_not_found_exception_handler(exc) == HTTP_404_NOT_FOUND

nomenclature_not_found_exception_handler(exc) == HTTP_404_NOT_FOUND

\* Status of the response to an add-item request that ended with out: the
\* endpoint's status when it returns the item, the handler's status for the
\* three handled exceptions, and a server error for an exception that has
\* no handler.
StatusCode(out) ==
    CASE out.kind = "ok" -> HTTP_201_CREATED
      [] out.kind = "InsufficientStock" -> insufficient_stock_exception_handler(out)
      [] out.kind = "OrderNotFound" -> order_not_found_exception_handler(out)
      [] out.kind = "NomenclatureNotFound" -> nomenclature_not_found_exception_handler(out)
      [] OTHER -> 500

\* ---------------------------------------------------- request arrival
RequestAddItem(t) ==
    /\ pc[t] = "idle"
    /\ \E r \in AddRequests : req' = [req EXCEPT ![t] = r]
    /\ pc' = [pc EXCEPT ![t] = "start"]
    /\ UNCHANGED << db, order_seq, nom_lock, item_lock, session, outcome, price_changes >>

\* ------------------------------------------------------------ add-item
\* session.get(Order, order_id): a plain read, no lock.
AddGetOrder(t) ==
    /\ pc[t] = "start"
    /\ req[t].op = "add"
    /\ IF ~OrderExists(req[t].order_id)
       THEN Raise(t, OrderNotFoundError(req[t].order_id))
       ELSE /\ pc' = [pc EXCEPT ![t] = "lock_nom"]
            /\ UNCHANGED << db, order_seq, nom_lock, item_lock, session, req,
                            outcome, price_changes >>

\* Variant of AddLockNom: the stock is decremented and written before the
\* quantity check, so a refused request leaves the decrement behind.
AddLockNomDecrementFirst(t) ==
    /\ pc[t] = "lock_nom"
    /\ LET n == req[t].nomenclature_id
           q == req[t].quantity
       IN IF n \notin NomIds
          THEN Raise(t, NomenclatureNotFoundError(n))
          ELSE /\ ~NomLocked(n)
               /\ IF nomenclatures[n].quantity < q
                  THEN /\ nomenclatures' = [nomenclatures EXCEPT ![n].quantity = @ - q]
                       /\ pc' = [pc EXCEPT ![t] = "aborted"]
                       /\ outcome' = [outcome EXCEPT ![t] =
                              InsufficientStockError(n, nomenclatures[n].quantity, q)]
                       /\ Rollback(t)
                       /\ UNCHANGED << orders, order_items, order_seq, req, price_changes >>
                  ELSE /\ nom_lock' = nom_lock \cup {<<n, t>>}
                       /\ nomenclature_map' =
                              [nomenclature_map EXCEPT ![t] = (n :> nomenclatures[n])]
                       /\ pc' = [pc EXCEPT ![t] = "lock_item"]
                       /\ UNCHANGED << db, order_seq, item_lock, existing_item,
                                       new_items, order_db, req, outcome, price_changes >>

\* Variant of AddLockNom: the SELECT without FOR UPDATE, which neither waits
\* for nor takes the row lock.
AddLockNomNoLock(t) ==
    /\ pc[t] = "lock_nom"
    /\ LET n == req[t].nomenclature_id
           q == req[t].quantity
       IN IF n \notin NomIds
          THEN Raise(t, NomenclatureNotFoundError(n))
          ELSE IF nomenclatures[n].quantity < q
               THEN Raise(t, InsufficientStockError(n, nomenclatures[n].quantity, q))
               ELSE /\ nomenclature_map' =
                           [nomenclature_map EXCEPT ![t] = (n :> nomenclatures[n])]
                    /\ pc' = [pc EXCEPT ![t] = "lock_item"]
                    /\ UNCHANGED << db, order_seq, nom_lock, item_lock, existing_item,
                                    new_items, order_db, req, outcome, price_changes >>

\* Variant of AddLockNom: no fixed lock order; a request may lock the order
\* item of its pair before it locks the nomenclature.
AddLockNomAnyOrder(t) ==
    /\ pc[t] = "lock_nom"
    /\ LET n == req[t].nomenclature_id
           q == req[t].quantity
           ids == ItemIdsOf(req[t].order_id, n)
       IN \E item_first \in BOOLEAN :
             IF item_first
             THEN /\ ids # {}
                  /\ \A l \in item_lock : l[1] \notin ids
                  /\ item_lock' = item_lock \cup {<<i, t>> : i \in ids}
                  /\ UNCHANGED << db, order_seq, nom_lock, pc, req, session, outcome,
                                  price_changes >>
             ELSE IF n \notin NomIds
             THEN Raise(t, NomenclatureNotFoundError(n))
             ELSE /\ ~NomLocked(n)
                  /\ IF nomenclatures[n].quantity < q
                     THEN Raise(t, InsufficientStockError(n, nomenclatures[n].quantity, q))
                     ELSE /\ nom_lock' = nom_lock \cup {<<n, t>>}
                          /\ nomenclature_map' =
                                 [nomenclature_map EXCEPT ![t] = (n :> nomenclatures[n])]
                          /\ pc' = [pc EXCEPT ![t] = "lock_item"]
                          /\ UNCHANGED << db, order_seq, item_lock, existing_item,
                                          new_items, order_db, req, outcome, price_changes >>

\* Variant of AddLockNom: the loaded nomenclature is decremented right after
\* the quantity check, before the existing item is looked up.
AddLockNomDecrementsOnCheck(t) ==
    /\ pc[t] = "lock_nom"
    /\ LET n == req[t].nomenclature_id
           q == req[t].quantity
       IN IF n \notin NomIds
          THEN Raise(t, NomenclatureNotFoundError(n))
          ELSE /\ ~NomLocked(n)
               /\ IF nomenclatures[n].quantity < q
                  THEN Raise(t, InsufficientStockError(n, nomenclatures[n].quantity, q))
                  ELSE /\ nom_lock' = nom_lock \cup {<<n, t>>}
                       /\ nomenclature_map' =
                              [nomenclature_map EXCEPT ![t] =
                                  (n :> [nomenclatures[n] EXCEPT !.quantity = @ - q])]
                       /\ pc' = [pc EXCEPT ![t] = "lock_item"]
                       /\ UNCHANGED << db, order_seq, item_lock, existing_item,
                                       new_items, order_db, req, outcome, price_changes >>

\* Variant of AddLockNom: the statement locks the whole table, so it waits
\* while any nomenclature row is locked.
AddLockNomTableLock(t) ==
    /\ pc[t] = "lock_nom"
    /\ LET n == req[t].nomenclature_id
           q == req[t].quantity
       IN IF n \notin NomIds
          THEN Raise(t, NomenclatureNotFoundError(n))
          ELSE /\ nom_lock = {}
               /\ IF nomenclatures[n].quantity < q
                  THEN Raise(t, InsufficientStockError(n, nomenclatures[n].quantity, q))
                  ELSE /\ nom_lock' = nom_lock \cup {<<n, t>>}
                       /\ nomenclature_map' =
                              [nomenclature_map EXCEPT ![t] = (n :> nomenclatures[n])]
                       /\ pc' = [pc EXCEPT ![t] = "lock_item"]
                       /\ UNCHANGED << db, order_seq, item_lock, existing_item,
                                       new_items, order_db, req, outcome, price_changes >>

\* SELECT nomenclature ... FOR UPDATE, then the existence and quantity checks.
\* The statement waits while another transaction holds the row lock and then
\* reads the latest committed row.
AddLockNom(t) ==
    /\ pc[t] = "lock_nom"
    /\ LET n == req[t].nomenclature_id
           q == req[t].quantity
       IN IF n \notin NomIds
          THEN Raise(t, NomenclatureNotFoundError(n))
          ELSE /\ ~NomLocked(n)
               /\ IF nomenclatures[n].quantity < q
                  THEN Raise(t, InsufficientStockError(n, nomenclatures[n].quantity, q))
                  ELSE /\ nom_lock' = nom_lock \cup {<<n, t>>}
                       /\ nomenclature_map' =
                              [nomenclature_map EXCEPT ![t] = (n :> nomenclatures[n])]
                       /\ pc' = [pc EXCEPT ![t] = "lock_item"]
                       /\ UNCHANGED << db, order_seq, item_lock, existing_item,
                                       new_items, order_db, req, outcome, price_changes >>

\* Variant of AddUpsert: the existing item is not looked up, every call adds
\* a new OrderItem.
AddUpsertNoMerge(t) ==
    /\ pc[t] = "lock_item"
    /\ LET o == req[t].order_id
           n == req[t].nomenclature_id
           q == req[t].quantity
       IN /\ new_items' = [new_items EXCEPT ![t] =
                 << [order_id |-> o, nomenclature_id |-> n, quantity |-> q,
                     price_at_purchase |-> nomenclature_map[t][n].price] >>]
          /\ nomenclature_map' = [nomenclature_map EXCEPT ![t][n].quantity = @ - q]
          /\ pc' = [pc EXCEPT ![t] = "returned"]
          /\ UNCHANGED << db, order_seq, nom_lock, item_lock, existing_item, order_db,
                          req, outcome, price_changes >>

\* Variant of AddUpsert: the nomenclature's row lock is given up once the
\* decrement is made on the loaded object, before the commit.
AddUpsertReleasesNomLock(t) ==
    /\ pc[t] = "lock_item"
    /\ LET o == req[t].order_id
           n == req[t].nomenclature_id
           q == req[t].quantity
           ids == ItemIdsOf(o, n)
           product == nomenclature_map[t][n]
       IN /\ \A l \in item_lock : l[1] \in ids => l[2] = t
          /\ IF Cardinality(ids) > 1
             THEN Raise(t, [kind |-> "MultipleResultsFound"])
             ELSE /\ IF ids # {}
                     THEN LET i == CHOOSE i \in ids : TRUE
                          IN /\ item_lock' = item_lock \cup {<<i, t>>}
                             /\ existing_item' = [existing_item EXCEPT ![t] =
                                    [id |-> i, quantity |-> order_items[i].quantity + q]]
                             /\ UNCHANGED new_items
                     ELSE /\ new_items' = [new_items EXCEPT ![t] =
                                 << [order_id |-> o, nomenclature_id |-> n, quantity |-> q,
                                     price_at_purchase |-> product.price] >>]
                          /\ UNCHANGED << item_lock, existing_item >>
                  /\ nomenclature_map' = [nomenclature_map EXCEPT ![t][n].quantity = @ - q]
                  /\ nom_lock' = nom_lock \ {<<n, t>>}
                  /\ pc' = [pc EXCEPT ![t] = "returned"]
                  /\ UNCHANGED << db, order_seq, order_db, req, outcome, price_changes >>

\* Variant of AddUpsert: the merge sets the existing item's quantity to the
\* requested quantity instead of adding to it.
AddUpsertOverwrites(t) ==
    /\ pc[t] = "lock_item"
    /\ LET o == req[t].order_id
           n == req[t].nomenclature_id
           q == req[t].quantity
           ids == ItemIdsOf(o, n)
           product == nomenclature_map[t][n]
       IN /\ \A l \in item_lock : l[1] \in ids => l[2] = t
          /\ IF Cardinality(ids) > 1
             THEN Raise(t, [kind |-> "MultipleResultsFound"])
             ELSE /\ IF ids # {}
                     THEN LET i == CHOOSE i \in ids : TRUE
                          IN /\ item_lock' = item_lock \cup {<<i, t>>}
                             /\ existing_item' = [existing_item EXCEPT ![t] =
                                    [id |-> i, quantity |-> q]]
                             /\ UNCHANGED new_items
                     ELSE /\ new_items' = [new_items EXCEPT ![t] =
                                 << [order_id |-> o, nomenclature_id |-> n, quantity |-> q,
                                     price_at_purchase |-> product.price] >>]
                          /\ UNCHANGED << item_lock, existing_item >>
                  /\ nomenclature_map' = [nomenclature_map EXCEPT ![t][n].quantity = @ - q]
                  /\ pc' = [pc EXCEPT ![t] = "returned"]
                  /\ UNCHANGED << db, order_seq, nom_lock, order_db, req, outcome,
                                  price_changes >>

\* Variant of AddUpsert: the item is created or merged but the loaded
\* nomenclature's quantity is left as it was read.
AddUpsertNoDecrement(t) ==
    /\ pc[t] = "lock_item"
    /\ LET o == req[t].order_id
           n == req[t].nomenclature_id
           q == req[t].quantity
           ids == ItemIdsOf(o, n)
           product == nomenclature_map[t][n]
       IN /\ \A l \in item_lock : l[1] \in ids => l[2] = t
          /\ IF Cardinality(ids) > 1
             THEN Raise(t, [kind |-> "MultipleResultsFound"])
             ELSE /\ IF ids # {}
                     THEN LET i == CHOOSE i \in ids : TRUE
                          IN /\ item_lock' = item_lock \cup {<<i, t>>}
                             /\ existing_item' = [existing_item EXCEPT ![t] =
                                    [id |-> i, quantity |-> order_items[i].quantity + q]]
                             /\ UNCHANGED new_items
                     ELSE /\ new_items' = [new_items EXCEPT ![t] =
                                 << [order_id |-> o, nomenclature_id |-> n, quantity |-> q,
                                     price_at_purchase |-> product.price] >>]
                          /\ UNCHANGED << item_lock, existing_item >>
                  /\ pc' = [pc EXCEPT ![t] = "returned"]
                  /\ UNCHANGED << db, order_seq, nom_lock, nomenclature_map, order_db, req,
                                  outcome, price_changes >>

\* Variant of AddUpsert: the stock decrement is committed on its own, at
\* once, before the caller's commit of the item.
AddUpsertCommitsDecrement(t) ==
    /\ pc[t] = "lock_item"
    /\ LET o == req[t].order_id
           n == req[t].nomenclature_id
           q == req[t].quantity
           ids == ItemIdsOf(o, n)
           product == nomenclature_map[t][n]
       IN /\ \A l \in item_lock : l[1] \in ids => l[2] = t
          /\ IF Cardinality(ids) > 1
             THEN Raise(t, [kind |-> "MultipleResultsFound"])
             ELSE /\ IF ids # {}
                     THEN LET i == CHOOSE i \in ids : TRUE
                          IN /\ item_lock' = item_lock \cup {<<i, t>>}
                             /\ existing_item' = [existing_item EXCEPT ![t] =
                                    [id |-> i, quantity |-> order_items[i].quantity + q]]
                             /\ UNCHANGED new_items
                     ELSE /\ new_items' = [new_items EXCEPT ![t] =
                                 << [order_id |-> o, nomenclature_id |-> n, quantity |-> q,
                                     price_at_purchase |-> product.price] >>]
                          /\ UNCHANGED << item_lock, existing_item >>
                  /\ nomenclature_map' = [nomenclature_map EXCEPT ![t][n].quantity = @ - q]
                  /\ nomenclatures' = [nomenclatures EXCEPT ![n].quantity = @ - q]
                  /\ pc' = [pc EXCEPT ![t] = "returned"]
                  /\ UNCHANGED << orders, order_items, order_seq, nom_lock, order_db, req,
                                  outcome, price_changes >>

\* Variant of AddUpsert: the lookup takes the first row it finds instead of
\* requiring at most one, and merges into it.
AddUpsertFirstRow(t) ==
    /\ pc[t] = "lock_item"
    /\ LET o == req[t].order_id
           n == req[t].nomenclature_id
           q == req[t].quantity
           ids == ItemIdsOf(o, n)
           product == nomenclature_map[t][n]
       IN /\ \A l \in item_lock : l[1] \in ids => l[2] = t
          /\ IF ids # {}
             THEN LET i == CHOOSE i \in ids : \A j \in ids : i <= j
                  IN /\ item_lock' = item_lock \cup {<<i, t>>}
                     /\ existing_item' = [existing_item EXCEPT ![t] =
                            [id |-> i, quantity |-> order_items[i].quantity + q]]
                     /\ UNCHANGED new_items
             ELSE /\ new_items' = [new_items EXCEPT ![t] =
                         << [order_id |-> o, nomenclature_id |-> n, quantity |-> q,
                             price_at_purchase |-> product.price] >>]
                  /\ UNCHANGED << item_lock, existing_item >>
          /\ nomenclature_map' = [nomenclature_map EXCEPT ![t][n].quantity = @ - q]
          /\ pc' = [pc EXCEPT ![t] = "returned"]
          /\ UNCHANGED << db, order_seq, nom_lock, order_db, req, outcome, price_changes >>

\* SELECT order_item WHERE (order_id, nomenclature_id) ... FOR UPDATE with
\* scalar_one_or_none, then the upsert and the stock decrement on the loaded
\* objects.  Nothing is written to the database before the commit.
MultipleResultsFound == [kind |-> "MultipleResultsFound"]

AddUpsert(t) ==
    /\ pc[t] = "lock_item"
    /\ LET o == req[t].order_id
           n == req[t].nomenclature_id
           q == req[t].quantity
           ids == ItemIdsOf(o, n)
           product == nomenclature_map[t][n]
       IN /\ \A l \in item_lock : l[1] \in ids => l[2] = t
          /\ IF Cardinality(ids) > 1
             THEN Raise(t, MultipleResultsFound)
             ELSE /\ IF ids # {}
                     THEN LET i == CHOOSE i \in ids : TRUE
                          IN /\ item_lock' = item_lock \cup {<<i, t>>}
                             /\ existing_item' = [existing_item EXCEPT ![t] =
                                    [id |-> i, quantity |-> order_items[i].quantity + q]]
                             /\ UNCHANGED new_items
                     ELSE /\ new_items' = [new_items EXCEPT ![t] =
                                 << [order_id |-> o, nomenclature_id |-> n, quantity |-> q,
                                     price_at_purchase |-> product.price] >>]
                          /\ UNCHANGED << item_lock, existing_item >>
                  /\ nomenclature_map' = [nomenclature_map EXCEPT ![t][n].quantity = @ - q]
                  /\ pc' = [pc EXCEPT ![t] = "returned"]
                  /\ UNCHANGED << db, order_seq, nom_lock, order_db, req, outcome,
                                  price_changes >>

\* session.commit(): the flush writes the changed attributes of the loaded
\* objects (UPDATE ... SET quantity) and inserts the added objects in the
\* order they were added; the commit makes it all visible at once and releases
\* the row locks of the transaction.
FlushedNomenclatures(t) ==
    [n \in NomIds |->
        IF n \in DOMAIN nomenclature_map[t]
        THEN [nomenclatures[n] EXCEPT !.quantity = nomenclature_map[t][n].quantity]
        ELSE nomenclatures[n]]

\* Variant of FlushedOrderItems: the merge also overwrites price_at_purchase
\* with the price of the loaded nomenclature.
FlushedOrderItemsReprice(t) ==
    LET updated == [i \in 1..Len(order_items) |->
                       IF i = existing_item[t].id
                       THEN [order_items[i] EXCEPT
                                !.quantity = existing_item[t].quantity,
                                !.price_at_purchase =
                                    nomenclature_map[t][order_items[i].nomenclature_id].price]
                       ELSE order_items[i]]
    IN updated \o new_items[t]

\* Variant of FlushedOrderItems: the merge is written to every item of the
\* merged item's nomenclature, whatever its order.
FlushedOrderItemsAllOrders(t) ==
    LET e == existing_item[t].id
        updated == [i \in 1..Len(order_items) |->
                       IF e \in 1..Len(order_items)
                          /\ order_items[i].nomenclature_id = order_items[e].nomenclature_id
                       THEN [order_items[i] EXCEPT !.quantity = existing_item[t].quantity]
                       ELSE order_items[i]]
    IN updated \o new_items[t]

FlushedOrderItems(t) ==
    LET updated == [i \in 1..Len(order_items) |->
                       IF i = existing_item[t].id
                       THEN [order_items[i] EXCEPT !.quantity = existing_item[t].quantity]
                       ELSE order_items[i]]
    IN updated \o new_items[t]

\* Variant of CommitSession: the commit makes the changes visible but the
\* row locks of the transaction are not released.
CommitSessionKeepsLocks(t) ==
    /\ nomenclatures' = FlushedNomenclatures(t)
    /\ order_items' = FlushedOrderItems(t)
    /\ UNCHANGED << nom_lock, item_lock >>
    /\ new_items' = [new_items EXCEPT ![t] = << >>]

CommitSession(t) ==
    /\ nomenclatures' = FlushedNomenclatures(t)
    /\ order_items' = FlushedOrderItems(t)
    /\ nom_lock' = {l \in nom_lock : l[2] # t}
    /\ item_lock' = {l \in item_lock : l[2] # t}
    /\ new_items' = [new_items EXCEPT ![t] = << >>]

\* add_item_to_order_endpoint: the service returned the item, the caller
\* commits.
AddCommit(t) ==
    /\ pc[t] = "returned"
    /\ req[t].op = "add"
    /\ CommitSession(t)
    /\ existing_item' = [existing_item EXCEPT ![t] =
           IF new_items[t] # << >>
           THEN [id |-> Len(order_items) + 1, quantity |-> new_items[t][1].quantity]
           ELSE @]
    /\ pc' = [pc EXCEPT ![t] = "committed"]
    /\ UNCHANGED << orders, order_seq, nomenclature_map, order_db, req, outcome,
                    price_changes >>

\* session.refresh(item) after the commit: the response is the row as it is
\* committed when the refresh reads it.
AddRefresh(t) ==
    /\ pc[t] = "committed"
    /\ req[t].op = "add"
    /\ outcome' = [outcome EXCEPT ![t] =
           [kind |-> "ok", item_id |-> existing_item[t].id,
            item |-> order_items[existing_item[t].id]]]
    /\ pc' = [pc EXCEPT ![t] = "done"]
    /\ UNCHANGED << db, order_seq, nom_lock, item_lock, session, req, price_changes >>

\* The request is cancelled while it is in flight: session_getter leaves its
\* "async with", the session closes and the transaction is rolled back.
InFlight(t) == pc[t] \in {"start", "lock_nom", "lock_item", "validated", "flushed", "returned"}

Cancelled == [kind |-> "Cancelled"]

Abort(t) ==
    /\ InFlight(t)
    /\ Raise(t, Cancelled)

\* ------------------------------------------------- create-full-order
RequestCreateOrder(t) ==
    /\ pc[t] = "idle"
    /\ \E r \in CreateRequests : req' = [req EXCEPT ![t] = r]
    /\ pc' = [pc EXCEPT ![t] = "start"]
    /\ UNCHANGED << db, order_seq, nom_lock, item_lock, session, outcome, price_changes >>

\* nomenclature_ids of the request, as a set: the rows the IN (...) matches.
RequestedNomIds(r) == {r.items[i].nomenclature_id : i \in DOMAIN r.items}

\* Variant of CreateLockNom: the SELECT without FOR UPDATE.
CreateLockNomNoLock(t) ==
    /\ pc[t] = "start"
    /\ req[t].op = "create"
    /\ \E n \in (RequestedNomIds(req[t]) \cap NomIds) \ DOMAIN nomenclature_map[t] :
          nomenclature_map' =
              [nomenclature_map EXCEPT ![t] = @ @@ (n :> nomenclatures[n])]
    /\ UNCHANGED << db, order_seq, nom_lock, item_lock, existing_item, new_items,
                    order_db, pc, req, outcome, price_changes >>

\* SELECT nomenclature WHERE id IN (...) FOR UPDATE: the store locks the
\* matching rows one at a time, in the order its scan meets them, waiting at a
\* row that another transaction holds while keeping the rows it has; each row
\* is read as committed when its lock is taken.
CreateLockNom(t) ==
    /\ pc[t] = "start"
    /\ req[t].op = "create"
    /\ \E n \in (RequestedNomIds(req[t]) \cap NomIds) \ DOMAIN nomenclature_map[t] :
          /\ ~NomLocked(n)
          /\ nom_lock' = nom_lock \cup {<<n, t>>}
          /\ nomenclature_map' =
                 [nomenclature_map EXCEPT ![t] = @ @@ (n :> nomenclatures[n])]
    /\ UNCHANGED << db, order_seq, item_lock, existing_item, new_items, order_db,
                    pc, req, outcome, price_changes >>

\* Variant of FirstInvalidFrom: two passes, the existence of every line's
\* nomenclature first and the quantities after, so an unknown line is
\* reported before an earlier line that asks for too much.
FirstInvalidFromExistenceFirst(items, map, i) ==
    LET unknown == {j \in i..Len(items) : items[j].nomenclature_id \notin DOMAIN map}
        short == {j \in (i..Len(items)) \ unknown :
                     map[items[j].nomenclature_id].quantity < items[j].quantity}
        First(S) == CHOOSE j \in S : \A k \in S : j <= k
    IN IF unknown # {} THEN First(unknown)
       ELSE IF short # {} THEN First(short)
       ELSE 0

\* Variant of FirstInvalidFrom: a line is checked against the loaded
\* quantity less what the earlier lines for the same nomenclature take.
FirstInvalidFromCumulative(items, map, i) ==
    LET taken(j) ==
            SumTo([k \in 1..j |->
                      IF items[k].nomenclature_id = items[j].nomenclature_id
                      THEN items[k].quantity ELSE 0], j)
        bad == {j \in i..Len(items) :
                   \/ items[j].nomenclature_id \notin DOMAIN map
                   \/ map[items[j].nomenclature_id].quantity < taken(j)}
    IN IF bad = {} THEN 0 ELSE CHOOSE j \in bad : \A k \in bad : j <= k

\* The validation loop: the first line, in input order, whose nomenclature is
\* not in the map or whose quantity exceeds the loaded quantity; 0 if none.
RECURSIVE FirstInvalidFrom(_, _, _)
FirstInvalidFrom(items, map, i) ==
    IF i > Len(items) THEN 0
    ELSE IF items[i].nomenclature_id \notin DOMAIN map THEN i
    ELSE IF map[items[i].nomenclature_id].quantity < items[i].quantity THEN i
    ELSE FirstInvalidFrom(items, map, i + 1)

ValidationError(items, map, i) ==
    IF items[i].nomenclature_id \notin DOMAIN map
    THEN NomenclatureNotFoundError(items[i].nomenclature_id)
    ELSE InsufficientStockError(items[i].nomenclature_id,
                                map[items[i].nomenclature_id].quantity,
                                items[i].quantity)

\* Variant of CreateValidate: each line is checked and its decrement written
\* in one pass, so the lines before the first invalid one stay decremented.
RECURSIVE DecrementBefore(_, _, _, _)
DecrementBefore(items, rows, i, bad) ==
    IF i >= bad THEN rows
    ELSE DecrementBefore(items,
                         [rows EXCEPT ![items[i].nomenclature_id].quantity =
                                          @ - items[i].quantity],
                         i + 1, bad)

CreateValidatePartial(t) ==
    /\ pc[t] = "start"
    /\ req[t].op = "create"
    /\ (RequestedNomIds(req[t]) \cap NomIds) \subseteq DOMAIN nomenclature_map[t]
    /\ LET bad == FirstInvalidFrom(req[t].items, nomenclature_map[t], 1)
       IN IF bad # 0
          THEN /\ nomenclatures' = DecrementBefore(req[t].items, nomenclatures, 1, bad)
               /\ pc' = [pc EXCEPT ![t] = "aborted"]
               /\ outcome' = [outcome EXCEPT ![t] =
                      ValidationError(req[t].items, nomenclature_map[t], bad)]
               /\ Rollback(t)
               /\ UNCHANGED << orders, order_items, order_seq, req, price_changes >>
          ELSE /\ pc' = [pc EXCEPT ![t] = "validated"]
               /\ UNCHANGED << db, order_seq, nom_lock, item_lock, session, req,
                               outcome, price_changes >>

\* Variant of CreateValidate: only the existence of each line's nomenclature
\* is checked, not its quantity.
CreateValidateExistenceOnly(t) ==
    /\ pc[t] = "start"
    /\ req[t].op = "create"
    /\ (RequestedNomIds(req[t]) \cap NomIds) \subseteq DOMAIN nomenclature_map[t]
    /\ LET items == req[t].items
           unknown == {i \in 1..Len(items) :
                          items[i].nomenclature_id \notin DOMAIN nomenclature_map[t]}
       IN IF unknown # {}
          THEN Raise(t, NomenclatureNotFoundError(
                            items[CHOOSE i \in unknown : \A j \in unknown : i <= j]
                                .nomenclature_id))
          ELSE /\ pc' = [pc EXCEPT ![t] = "validated"]
               /\ UNCHANGED << db, order_seq, nom_lock, item_lock, session, req,
                               outcome, price_changes >>

\* Variant of CreateValidate: a request without lines is rejected.
CreateValidateRequiresLine(t) ==
    /\ pc[t] = "start"
    /\ req[t].op = "create"
    /\ (RequestedNomIds(req[t]) \cap NomIds) \subseteq DOMAIN nomenclature_map[t]
    /\ LET bad == FirstInvalidFrom(req[t].items, nomenclature_map[t], 1)
       IN IF req[t].items = << >>
          THEN Raise(t, [kind |-> "RequestValidationError"])
          ELSE IF bad # 0
               THEN Raise(t, ValidationError(req[t].items, nomenclature_map[t], bad))
               ELSE /\ pc' = [pc EXCEPT ![t] = "validated"]
                    /\ UNCHANGED << db, order_seq, nom_lock, item_lock, session, req,
                                    outcome, price_changes >>

\* The locking statement has returned every matching row; the lines are
\* validated against the loaded rows before anything is changed.
CreateValidate(t) ==
    /\ pc[t] = "start"
    /\ req[t].op = "create"
    /\ (RequestedNomIds(req[t]) \cap NomIds) \subseteq DOMAIN nomenclature_map[t]
    /\ LET bad == FirstInvalidFrom(req[t].items, nomenclature_map[t], 1)
       IN IF bad # 0
          THEN Raise(t, ValidationError(req[t].items, nomenclature_map[t], bad))
          ELSE /\ pc' = [pc EXCEPT ![t] = "validated"]
               /\ UNCHANGED << db, order_seq, nom_lock, item_lock, session, req,
                               outcome, price_changes >>

\* Variant of CreateFlushOrder: the orders table has no foreign key to the
\* clients, the insert succeeds for any client identity.
CreateFlushOrderNoForeignKey(t) ==
    /\ pc[t] = "validated"
    /\ order_seq' = order_seq + 1
    /\ order_db' = [order_db EXCEPT ![t] = order_seq + 1]
    /\ pc' = [pc EXCEPT ![t] = "flushed"]
    /\ UNCHANGED << db, nom_lock, item_lock, nomenclature_map, existing_item,
                    new_items, req, outcome, price_changes >>

\* Variant of CreateFlushOrder: the Order is inserted as soon as the request
\* starts, before the lines are validated.
CreateFlushOrderBeforeValidation(t) ==
    /\ req[t].op = "create"
    /\ IF pc[t] = "start"
       THEN /\ order_db[t] = 0
            /\ req[t].client_id \in ClientIds
            /\ order_seq' = order_seq + 1
            /\ order_db' = [order_db EXCEPT ![t] = order_seq + 1]
            /\ UNCHANGED << db, nom_lock, item_lock, nomenclature_map, existing_item,
                            new_items, pc, req, outcome, price_changes >>
       ELSE /\ pc[t] = "validated"
            /\ order_db[t] # 0
            /\ pc' = [pc EXCEPT ![t] = "flushed"]
            /\ UNCHANGED << db, order_seq, nom_lock, item_lock, session, req, outcome,
                            price_changes >>

\* Order(client_id=...), db.add, db.flush(): the INSERT draws the next id of
\* the sequence (drawn values are not given back on rollback) and the store
\* checks the foreign key to clients.
IntegrityError == [kind |-> "IntegrityError"]

CreateFlushOrder(t) ==
    /\ pc[t] = "validated"
    /\ order_seq' = order_seq + 1
    /\ IF req[t].client_id \notin ClientIds
       THEN /\ pc' = [pc EXCEPT ![t] = "aborted"]
            /\ outcome' = [outcome EXCEPT ![t] = IntegrityError]
            /\ Rollback(t)
            /\ UNCHANGED << db, req, price_changes >>
       ELSE /\ order_db' = [order_db EXCEPT ![t] = order_seq + 1]
            /\ pc' = [pc EXCEPT ![t] = "flushed"]
            /\ UNCHANGED << db, nom_lock, item_lock, nomenclature_map, existing_item,
                            new_items, req, outcome, price_changes >>

\* Variant of DecrementAll: every line sets the quantity to the loaded
\* quantity less its own, so lines for the same nomenclature do not add up.
DecrementAllFromSnapshot(items, map, i) ==
    [n \in DOMAIN map |->
        LET lines == {j \in i..Len(items) : items[j].nomenclature_id = n}
            last == CHOOSE j \in lines : \A k \in lines : k <= j
        IN IF lines = {} THEN map[n]
           ELSE [map[n] EXCEPT !.quantity = @ - items[last].quantity]]

\* The mutation loop: per line, in input order, the loaded nomenclature's
\* quantity is decremented and an OrderItem with the nomenclature's price is
\* added to the session.
RECURSIVE DecrementAll(_, _, _)
DecrementAll(items, map, i) ==
    IF i > Len(items) THEN map
    ELSE DecrementAll(items,
                      [map EXCEPT ![items[i].nomenclature_id].quantity =
                                      @ - items[i].quantity],
                      i + 1)

\* Variant of CreatedItems: the items are built from the last line to the
\* first.
CreatedItemsReversed(items, map, o) ==
    [i \in 1..Len(items) |->
        LET j == Len(items) + 1 - i
        IN [order_id |-> o, nomenclature_id |-> items[j].nomenclature_id,
            quantity |-> items[j].quantity,
            price_at_purchase |-> map[items[j].nomenclature_id].price]]

CreatedItems(items, map, o) ==
    [i \in 1..Len(items) |->
        [order_id |-> o, nomenclature_id |-> items[i].nomenclature_id,
         quantity |-> items[i].quantity,
         price_at_purchase |-> map[items[i].nomenclature_id].price]]

CreateItems(t) ==
    /\ pc[t] = "flushed"
    /\ nomenclature_map' = [nomenclature_map EXCEPT ![t] =
                               DecrementAll(req[t].items, @, 1)]
    /\ new_items' = [new_items EXCEPT ![t] =
                        CreatedItems(req[t].items, nomenclature_map[t], order_db[t])]
    /\ pc' = [pc EXCEPT ![t] = "returned"]
    /\ UNCHANGED << db, order_seq, nom_lock, item_lock, existing_item, order_db,
                    req, outcome, price_changes >>

\* The caller of create_full_order commits the session.
CreateCommit(t) ==
    /\ pc[t] = "returned"
    /\ req[t].op = "create"
    /\ CommitSession(t)
    /\ orders' = orders \cup {[id |-> order_db[t], client_id |-> req[t].client_id]}
    /\ outcome' = [outcome EXCEPT ![t] = [kind |-> "ok", order_id |-> order_db[t]]]
    /\ pc' = [pc EXCEPT ![t] = "done"]
    /\ UNCHANGED << order_seq, nomenclature_map, existing_item, order_db, req,
                    price_changes >>

\* ------------------------------------------------------- catalog price
\* The catalog price of a nomenclature is changed outside the order service
\* (the generic accessor's update, committed by its caller); the UPDATE waits
\* for the row lock like any writer.
UpdatePrice(n, p) ==
    /\ price_changes < MaxPriceChanges
    /\ ~NomLocked(n)
    /\ p # nomenclatures[n].price
    /\ nomenclatures' = [nomenclatures EXCEPT ![n].price = p]
    /\ price_changes' = price_changes + 1
    /\ UNCHANGED << orders, order_items, order_seq, nom_lock, item_lock, pc, req,
                    session, outcome >>

Next ==
    \/ \E t \in Txns :
          \/ RequestAddItem(t)
          \/ AddGetOrder(t)
          \/ AddLockNom(t)
          \/ AddUpsert(t)
          \/ AddCommit(t)
          \/ AddRefresh(t)
          \/ RequestCreateOrder(t)
          \/ CreateLockNom(t)
          \/ CreateValidate(t)
          \/ CreateFlushOrder(t)
          \/ CreateItems(t)
          \/ CreateCommit(t)
          \/ Abort(t)
    \/ \E n \in NomIds, p \in Prices : UpdatePrice(n, p)

Spec == Init /\ [][Next]_vars

\* ------------------------------------- add-item after a duplicate order
\* The scenario of add-item calls on the database as a committed
\* create-full-order(client 1, two lines for nomenclature 1) leaves it: the
\* new order holds two items for that nomenclature.
DuplicateLines ==
    << [nomenclature_id |-> 1, quantity |-> 1], [nomenclature_id |-> 1, quantity |-> 1] >>

InitDuplicateOrder ==
    LET rows == [n \in NomIds |-> [quantity |-> InitQuantity, price |-> InitPrice[n]]]
        o == 2
    IN /\ nomenclatures = DecrementAll(DuplicateLines, rows, 1)
       /\ orders = InitOrders \cup {[id |-> o, client_id |-> 1]}
       /\ order_items = InitOrderItems \o CreatedItems(DuplicateLines, rows, o)
       /\ order_seq = o
       /\ nom_lock = {}
       /\ item_lock = {}
       /\ pc = [t \in Txns |-> "idle"]
       /\ req = [t \in Txns |-> NoReq]
       /\ nomenclature_map = [t \in Txns |-> EmptyMap]
       /\ existing_item = [t \in Txns |-> NoItem]
       /\ new_items = [t \in Txns |-> << >>]
       /\ order_db = [t \in Txns |-> 0]
       /\ outcome = [t \in Txns |-> NoOutcome]
       /\ price_changes = 0

NextAddItems ==
    \E t \in Txns :
        \/ RequestAddItem(t)
        \/ AddGetOrder(t)
        \/ AddLockNom(t)
        \/ AddUpsert(t)
        \/ AddCommit(t)
        \/ AddRefresh(t)
        \/ Abort(t)

SpecDuplicateOrder == InitDuplicateOrder /\ [][NextAddItems]_vars

\* The scenario of add-item calls only, on the seed data: no order is
\* created, every order is modified by add-item alone.
SpecAddItems == Init /\ [][NextAddItems]_vars

\* --------------------------------------------------- generic accessor
\* CRUDBase bound to Order (crud_order): get, get_multi and delete in a
\* session of their own.  The accessor neither flushes nor commits; what it
\* marks in the session reaches the tables when its caller commits.
StoredOrders == {[id |-> o, client_id |-> 1] : o \in 1..MaxStored}

\* Items that reference some row of the table s (the foreign key of
\* order_items to orders).
StoredItems(s) ==
    [order_id : {r.id : r \in s}, nomenclature_id : {1}, quantity : {1},
     price_at_purchase : {100}]

CrudRequests ==
    [op : {"get", "delete"}, model_id : 1..MaxStored]
        \cup [op : {"get_multi"}, skip : 0..MaxStored, limit : 0..MaxStored]

InitCrud ==
    /\ nomenclatures = [n \in NomIds |-> [quantity |-> InitQuantity, price |-> InitPrice[n]]]
    /\ orders \in SUBSET StoredOrders
    /\ order_items \in UNION {[1..k -> StoredItems(orders)] : k \in 0..MaxLines}
    /\ order_seq = MaxStored
    /\ nom_lock = {}
    /\ item_lock = {}
    /\ pc = [t \in Txns |-> "idle"]
    /\ req = [t \in Txns |-> NoReq]
    /\ nomenclature_map = [t \in Txns |-> EmptyMap]
    /\ existing_item = [t \in Txns |-> NoItem]
    /\ new_items = [t \in Txns |-> << >>]
    /\ order_db = [t \in Txns |-> 0]
    /\ outcome = [t \in Txns |-> NoOutcome]
    /\ price_changes = 0

CrudRequest(t) ==
    /\ pc[t] = "idle"
    /\ \E r \in CrudRequests : req' = [req EXCEPT ![t] = r]
    /\ pc' = [pc EXCEPT ![t] = "start"]
    /\ UNCHANGED << db, order_seq, nom_lock, item_lock, session, outcome, price_changes >>

\* SELECT ... WHERE id = model_id with scalar_one_or_none: the row, or None
\* (the result without a row).
RowsById(model_id) == {r \in orders : r.id = model_id}

None == << >>

ScalarOneOrNone(rows) == IF rows = {} THEN None ELSE << CHOOSE r \in rows : TRUE >>

CrudGet(t) ==
    /\ pc[t] = "start"
    /\ req[t].op = "get"
    /\ outcome' = [outcome EXCEPT ![t] =
           [kind |-> "ok", result |-> ScalarOneOrNone(RowsById(req[t].model_id))]]
    /\ pc' = [pc EXCEPT ![t] = "returned"]
    /\ UNCHANGED << db, order_seq, nom_lock, item_lock, session, req, price_changes >>

\* The orders in which a scan without ORDER BY may meet the rows.
ScanOrders(rows) ==
    {s \in [1..Cardinality(rows) -> rows] : \A i, j \in DOMAIN s : s[i] = s[j] => i = j}

Min(a, b) == IF a <= b THEN a ELSE b

\* Variant of OffsetLimit: the statement has the offset but not the limit.
OffsetOnly(s, skip, limit) == SubSeq(s, skip + 1, Len(s))

\* SELECT ... OFFSET skip LIMIT limit on the scan s.
OffsetLimit(s, skip, limit) == SubSeq(s, skip + 1, Min(skip + limit, Len(s)))

CrudGetMulti(t) ==
    /\ pc[t] = "start"
    /\ req[t].op = "get_multi"
    /\ \E s \in ScanOrders(orders) :
          outcome' = [outcome EXCEPT ![t] =
              [kind |-> "ok", result |-> OffsetLimit(s, req[t].skip, req[t].limit)]]
    /\ pc' = [pc EXCEPT ![t] = "returned"]
    /\ UNCHANGED << db, order_seq, nom_lock, item_lock, session, req, price_changes >>

\* Variant of CrudDelete: the lookup has no condition on the identity and
\* takes the first row of the table.
CrudDeleteFirstRow(t) ==
    /\ pc[t] = "start"
    /\ req[t].op = "delete"
    /\ LET db_obj == IF orders = {} THEN None
                     ELSE << CHOOSE r \in orders : \A x \in orders : r.id <= x.id >>
       IN /\ outcome' = [outcome EXCEPT ![t] = [kind |-> "ok", result |-> db_obj]]
          /\ order_db' = [order_db EXCEPT ![t] = IF db_obj = None THEN 0 ELSE db_obj[1].id]
    /\ pc' = [pc EXCEPT ![t] = "returned"]
    /\ UNCHANGED << db, order_seq, nom_lock, item_lock, nomenclature_map, existing_item,
                    new_items, req, price_changes >>

\* The lookup, then session.delete of the object found: the object is marked
\* as deleted in the session and returned; without a row None is returned
\* and nothing is marked.
CrudDelete(t) ==
    /\ pc[t] = "start"
    /\ req[t].op = "delete"
    /\ LET db_obj == ScalarOneOrNone(RowsById(req[t].model_id))
       IN /\ outcome' = [outcome EXCEPT ![t] = [kind |-> "ok", result |-> db_obj]]
          /\ order_db' = [order_db EXCEPT ![t] = IF db_obj = None THEN 0 ELSE db_obj[1].id]
    /\ pc' = [pc EXCEPT ![t] = "returned"]
    /\ UNCHANGED << db, order_seq, nom_lock, item_lock, nomenclature_map, existing_item,
                    new_items, req, price_changes >>

\* Order.items has cascade "all, delete-orphan": the flush deletes the items
\* of a deleted order before the order.
ItemsWithoutOrder(o) == SelectSeq(order_items, LAMBDA it : it.order_id # o)

\* The caller of the accessor commits its session: the flush deletes what
\* the session has marked.
CrudCommit(t) ==
    /\ pc[t] = "returned"
    /\ req[t].op \in {"get", "get_multi", "delete"}
    /\ orders' = {r \in orders : r.id # order_db[t]}
    /\ order_items' = ItemsWithoutOrder(order_db[t])
    /\ order_db' = [order_db EXCEPT ![t] = 0]
    /\ pc' = [pc EXCEPT ![t] = "done"]
    /\ UNCHANGED << nomenclatures, order_seq, nom_lock, item_lock, nomenclature_map,
                    existing_item, new_items, req, outcome, price_changes >>

NextCrud ==
    \E t \in Txns :
        \/ CrudRequest(t)
        \/ CrudGet(t)
        \/ CrudGetMulti(t)
        \/ CrudDelete(t)
        \/ CrudCommit(t)
        \/ Abort(t)

SpecCrud == InitCrud /\ [][NextCrud]_vars

\* ------------------------------------------------------- fair scheduling
\* The event loop runs every handler that can go on, and the store grants a
\* row lock that has become free to a statement that waits for it: a step of
\* a request that stays possible is eventually taken.  Cancellation and the
\* arrival of requests are not forced.
Step(t) ==
    \/ AddGetOrder(t)
    \/ AddLockNom(t)
    \/ AddUpsert(t)
    \/ AddCommit(t)
    \/ AddRefresh(t)
    \/ CreateLockNom(t)
    \/ CreateValidate(t)
    \/ CreateFlushOrder(t)
    \/ CreateItems(t)
    \/ CreateCommit(t)

\* The scenario for termination: requests of both kinds for an existing
\* client, no catalog price updates.
RequestLive(t) ==
    /\ pc[t] = "idle"
    /\ \E r \in AddRequests \cup CreateRequests :
          /\ r.op = "create" => r.client_id \in ClientIds
          /\ req' = [req EXCEPT ![t] = r]
    /\ pc' = [pc EXCEPT ![t] = "start"]
    /\ UNCHANGED << db, order_seq, nom_lock, item_lock, session, outcome, price_changes >>

NextLive == \E t \in Txns : RequestLive(t) \/ Step(t) \/ Abort(t)

SpecLive == Init /\ [][NextLive]_vars /\ \A t \in Txns : WF_vars(Step(t))

\* ------------------------------------------- concurrent add-item calls
\* The scenario of N add-item calls against one nomenclature and nothing
\* else: every request names an existing order and the same nomenclature, and
\* every call runs to its end.
RequestAddItemSame(t) ==
    /\ pc[t] = "idle"
    /\ \E r \in AddRequests :
          /\ OrderExists(r.order_id)
          /\ r.nomenclature_id \in NomIds
          /\ \A u \in Txns : req[u].op = "add" => req[u].nomenclature_id = r.nomenclature_id
          /\ req' = [req EXCEPT ![t] = r]
    /\ pc' = [pc EXCEPT ![t] = "start"]
    /\ UNCHANGED << db, order_seq, nom_lock, item_lock, session, outcome, price_changes >>

NextAddItem ==
    \E t \in Txns :
        \/ RequestAddItemSame(t)
        \/ AddGetOrder(t)
        \/ AddLockNom(t)
        \/ AddUpsert(t)
        \/ AddCommit(t)
        \/ AddRefresh(t)

SpecAddItem == Init /\ [][NextAddItem]_vars
\* ======================================================= verification
Committed(t) == pc[t] \in {"committed", "done"}

Ended(t) == pc[t] \in {"committed", "done", "aborted"}

\* Quantity of nomenclature n that request r asks for, over all its lines.
RequestedOf(r, n) ==
    IF r.op = "add" THEN (IF r.nomenclature_id = n THEN r.quantity ELSE 0)
    ELSE IF r.op = "create"
    THEN SumTo([i \in 1..Len(r.items) |->
                   IF r.items[i].nomenclature_id = n THEN r.items[i].quantity ELSE 0],
               Len(r.items))
    ELSE 0

\* Quantity of nomenclature n taken by the committed add-item calls.
CommittedAddQty(n) ==
    SumTo([t \in Txns |->
              IF Committed(t) /\ req[t].op = "add" THEN RequestedOf(req[t], n) ELSE 0],
          NumTxns)

\* The transaction has loaded nomenclature n for update and has not ended.
InCritical(t, n) == n \in DOMAIN nomenclature_map[t] /\ ~Ended(t)

\* ------------------------------------------------------------------ C1
\* C1: in every committed state every nomenclature's quantity is >= 0.
C1_QuantityNeverNegative == \A n \in NomIds : nomenclatures[n].quantity >= 0

\* ------------------------------------------------------------------ C2
\* C2: concurrent add-item calls against one nomenclature: every call that
\* has ended is committed or failed with Insufficient-Stock, while calls are
\* in flight one of them can step, the committed quantities never sum to more
\* than the starting stock, and a call fails with Insufficient-Stock only if
\* it asks for more than the starting stock less what has been committed.
C2_EndedOk ==
    \A t \in Txns : pc[t] = "aborted" => outcome[t].kind = "InsufficientStock"

C2_Progress ==
    (\E t \in Txns : pc[t] \notin {"idle", "committed", "done", "aborted"})
        => \E t \in Txns : ENABLED (AddGetOrder(t) \/ AddLockNom(t) \/ AddUpsert(t)
                                       \/ AddCommit(t))

C2_NoOversell == \A n \in NomIds : CommittedAddQty(n) <= InitQuantity

C2_FailsOnlyWhenShort ==
    \A t \in Txns :
        (outcome[t].kind = "none" /\ outcome'[t].kind = "InsufficientStock")
            => req[t].quantity > InitQuantity - CommittedAddQty(req[t].nomenclature_id)

\* C2: ended calls are committed or Insufficient-Stock, the committed
\* quantities never exceed the starting stock, and a refusal means the
\* request exceeds what is left.
C2_ConcurrentAddItem ==
    /\ [](C2_EndedOk /\ C2_Progress /\ C2_NoOversell)
    /\ [][C2_FailsOnlyWhenShort]_vars

\* Two calls whose quantities together exceed the stock have both ended: one
\* committed, the other refused although the starting stock covered it.
C2_Witness ==
    \E t, u \in Txns :
        /\ pc[t] = "done"
        /\ outcome[u].kind = "InsufficientStock"
        /\ req[u].nomenclature_id = req[t].nomenclature_id
        /\ req[u].quantity <= InitQuantity
        /\ req[t].quantity + req[u].quantity > InitQuantity

\* ------------------------------------------------------------------ C3
\* C3: requests contending on a nomenclature row are serialized at the lock:
\* at most one unfinished transaction has the row loaded for update, and the
\* quantity it checked is the committed quantity until its own commit (after
\* its decrement it is the committed quantity less what the request takes).
C3_SerializedAtLock ==
    \A t \in Txns : \A n \in NomIds :
        InCritical(t, n) =>
            /\ \A u \in Txns \ {t} : ~InCritical(u, n)
            /\ nomenclature_map[t][n].quantity =
                   IF pc[t] = "returned"
                   THEN nomenclatures[n].quantity - RequestedOf(req[t], n)
                   ELSE nomenclatures[n].quantity

\* One request holds a row it has checked while another waits for that row.
C3_Witness ==
    \E t, u \in Txns : \E n \in NomIds :
        /\ t # u
        /\ InCritical(t, n)
        /\ pc[t] = "returned"
        /\ \/ pc[u] = "lock_nom" /\ req[u].nomenclature_id = n
           \/ /\ pc[u] = "start" /\ req[u].op = "create"
              /\ n \in RequestedNomIds(req[u])

\* ------------------------------------------------------------------ C4
\* C4: the price_at_purchase of an order item never changes once the item
\* exists, and a new item carries the catalog price of its nomenclature.
C4_PriceStep ==
    /\ Len(order_items') >= Len(order_items)
    /\ \A i \in 1..Len(order_items) :
           order_items'[i].price_at_purchase = order_items[i].price_at_purchase
    /\ \A i \in (Len(order_items) + 1)..Len(order_items') :
           order_items'[i].price_at_purchase =
               nomenclatures[order_items'[i].nomenclature_id].price

\* C4: no step changes the price_at_purchase of an existing order item.
C4_PriceFrozen == [][C4_PriceStep]_vars

\* An add-item that saw a changed catalog price has incremented an item that
\* existed before, and the item's quantity grew.
C4_Witness ==
    \E t \in Txns :
        /\ Committed(t)
        /\ req[t].op = "add"
        /\ existing_item[t].id \in 1..Len(InitOrderItems)
        /\ LET i == existing_item[t].id
           IN /\ order_items[i].quantity > InitOrderItems[i].quantity
              /\ nomenclature_map[t][req[t].nomenclature_id].price
                     # order_items[i].price_at_purchase

\* ------------------------------------------------------------------ C5
\* C5: when an add-item commits on an (order, nomenclature) pair that had no
\* item at start and on which exactly one other add-item has committed before,
\* the pair has one item, with the sum of the two quantities and the catalog
\* price the first call read.
OnPair(t, o, n) ==
    \/ req[t].op = "add" /\ req[t].order_id = o /\ req[t].nomenclature_id = n
    \/ req[t].op = "create" /\ order_db[t] = o /\ n \in RequestedNomIds(req[t])

C5_MergeStep ==
    \A t1, t2 \in Txns :
        LET o == req[t2].order_id
            n == req[t2].nomenclature_id
        IN (/\ t1 # t2
            /\ req[t1].op = "add" /\ req[t2].op = "add"
            /\ OnPair(t1, o, n)
            /\ Committed(t1)
            /\ pc[t2] = "returned" /\ pc'[t2] = "committed"
            /\ ItemIdsIn(InitOrderItems, o, n) = {}
            /\ \A u \in Txns \ {t1, t2} : ~(Committed(u) /\ OnPair(u, o, n)))
           => /\ Cardinality(ItemIdsIn(order_items', o, n)) = 1
              /\ \A i \in ItemIdsIn(order_items', o, n) :
                    /\ order_items'[i].quantity = req[t1].quantity + req[t2].quantity
                    /\ order_items'[i].price_at_purchase = nomenclature_map[t1][n].price

\* C5: the second committed add-item on a pair leaves one item with the
\* summed quantity and the first call's price.
C5_SequentialMerge == [][C5_MergeStep]_vars

\* Two add-item calls have committed on a pair without an item at start, and
\* the second one read another catalog price than the first.
C5_Witness ==
    \E t1, t2 \in Txns :
        /\ t1 # t2
        /\ req[t1].op = "add" /\ req[t2].op = "add"
        /\ OnPair(t1, req[t2].order_id, req[t2].nomenclature_id)
        /\ Committed(t1) /\ Committed(t2)
        /\ ItemIdsIn(InitOrderItems, req[t2].order_id, req[t2].nomenclature_id) = {}
        /\ existing_item[t1].id = existing_item[t2].id
        /\ nomenclature_map[t1][req[t1].nomenclature_id].price
               # nomenclature_map[t2][req[t2].nomenclature_id].price

\* Quantity of nomenclature n taken by all committed requests.
CommittedQty(n) ==
    SumTo([t \in Txns |-> IF Committed(t) THEN RequestedOf(req[t], n) ELSE 0], NumTxns)

\* A request that was aborted stays aborted and keeps nothing in its
\* session: no loaded row, no pending item, no order.
AbortedStaysEmpty(t) ==
    pc[t] = "aborted" =>
        /\ pc'[t] = "aborted"
        /\ nomenclature_map'[t] = EmptyMap
        /\ new_items'[t] = << >>
        /\ existing_item'[t] = NoItem
        /\ order_db'[t] = 0

HoldsNoLock(t, nl, il) == (\A l \in nl : l[2] # t) /\ (\A l \in il : l[2] # t)

\* ------------------------------------------------------------------ C6
\* C6: a create-full-order with a line that is unknown or asks for more than
\* the available quantity ends aborted with that failure and persists
\* nothing: no order, no order item, no quantity change, whatever valid lines
\* precede the invalid one.
HasInvalidLine(items) ==
    \E i \in 1..Len(items) :
        \/ items[i].nomenclature_id \notin NomIds
        \/ items[i].quantity > nomenclatures[items[i].nomenclature_id].quantity

C6_Step ==
    \A t \in Txns :
        /\ (/\ req[t].op = "create"
            /\ pc[t] = "start" /\ pc'[t] # "start"
            /\ outcome'[t].kind # "Cancelled"
            /\ HasInvalidLine(req[t].items))
           => /\ pc'[t] = "aborted"
              /\ outcome'[t].kind \in {"NomenclatureNotFound", "InsufficientStock"}
              /\ UNCHANGED db
              /\ HoldsNoLock(t, nom_lock', item_lock')
        /\ req[t].op = "create" => AbortedStaysEmpty(t)

\* C6: a create-full-order with an invalid line aborts and persists nothing.
C6_InvalidOrderPersistsNothing == [][C6_Step]_vars

\* A create-full-order was refused on its second line after a first line
\* that was valid.
C6_Witness ==
    \E t \in Txns :
        /\ req[t].op = "create"
        /\ pc[t] = "aborted"
        /\ outcome[t].kind \in {"NomenclatureNotFound", "InsufficientStock"}
        /\ Len(req[t].items) = 2
        /\ req[t].items[1].nomenclature_id \in NomIds
        /\ req[t].items[1].quantity
               <= nomenclatures[req[t].items[1].nomenclature_id].quantity
        /\ outcome[t].nomenclature_id = req[t].items[2].nomenclature_id
        /\ outcome[t].nomenclature_id # req[t].items[1].nomenclature_id

\* ------------------------------------------------------------------ C7
\* C7: an add-item that fails with Order-Not-Found, Nomenclature-Not-Found
\* or Insufficient-Stock changes no committed nomenclature, order or order
\* item, and leaves no pending item behind.
BusinessErrors == {"OrderNotFound", "NomenclatureNotFound", "InsufficientStock"}

C7_Step ==
    \A t \in Txns :
        req[t].op = "add" =>
            /\ (outcome[t].kind = "none" /\ outcome'[t].kind \in BusinessErrors)
                   => /\ UNCHANGED db
                      /\ pc'[t] = "aborted"
                      /\ HoldsNoLock(t, nom_lock', item_lock')
            /\ AbortedStaysEmpty(t)

\* C7: a failed add-item changes no committed row and creates no item.
C7_FailedAddChangesNothing == [][C7_Step]_vars

\* An add-item was refused for insufficient stock after another request
\* committed, and the committed quantities are those that commit left.
C7_Witness ==
    \E t, u \in Txns :
        /\ req[t].op = "add"
        /\ outcome[t].kind = "InsufficientStock"
        /\ Committed(u)
        /\ \A n \in NomIds :
               nomenclatures[n].quantity = InitQuantity - RequestedOf(req[u], n)

\* ------------------------------------------------------------------ C8
\* C8: add-item fails in a fixed precedence: Order-Not-Found first, taking no
\* lock; else Nomenclature-Not-Found; else Insufficient-Stock when the locked
\* quantity is below the requested one; otherwise it succeeds.
C8_Step ==
    \A t \in Txns :
        LET o == req[t].order_id
            n == req[t].nomenclature_id
            q == req[t].quantity
        IN (req[t].op = "add" /\ pc'[t] # pc[t] /\ outcome'[t].kind # "Cancelled") =>
              IF pc[t] = "start"
              THEN IF ~OrderExists(o)
                   THEN /\ outcome'[t] = OrderNotFoundError(o)
                        /\ UNCHANGED << nom_lock, item_lock >>
                   ELSE pc'[t] = "lock_nom"
              ELSE IF pc[t] = "lock_nom"
              THEN IF n \notin NomIds
                   THEN outcome'[t] = NomenclatureNotFoundError(n)
                   ELSE IF nomenclatures[n].quantity < q
                   THEN outcome'[t].kind = "InsufficientStock"
                   ELSE pc'[t] = "lock_item"
              ELSE IF pc[t] = "lock_item" THEN pc'[t] = "returned"
              ELSE IF pc[t] = "returned" THEN pc'[t] = "committed"
              ELSE TRUE

\* C8: Order-Not-Found, then Nomenclature-Not-Found, then
\* Insufficient-Stock, otherwise success, at every step of an add-item.
C8_FailurePrecedence == [][C8_Step]_vars

\* ------------------------------------------------------------------ C9
\* C9: a successful add-item of q on n decrements n's quantity by exactly q
\* and no other quantity, and add-item succeeds whenever the order and the
\* nomenclature exist and q is at most the locked quantity.
C9_Step ==
    \A t \in Txns :
        LET n == req[t].nomenclature_id
            q == req[t].quantity
        IN (req[t].op = "add" /\ pc'[t] # pc[t] /\ outcome'[t].kind # "Cancelled") =>
              /\ (pc[t] = "lock_nom" /\ n \in NomIds /\ q <= nomenclatures[n].quantity)
                     => pc'[t] = "lock_item"
              /\ pc[t] = "lock_item" => pc'[t] = "returned"
              /\ pc[t] = "returned" =>
                     /\ pc'[t] = "committed"
                     /\ nomenclatures'[n].quantity = nomenclatures[n].quantity - q
                     /\ \A m \in NomIds \ {n} : nomenclatures'[m] = nomenclatures[m]

\* C9: add-item succeeds whenever q is at most the locked quantity and
\* its commit decrements the quantity by exactly q.
C9_ExactDecrement == [][C9_Step]_vars

\* ----------------------------------------------------------------- C10
\* C10: an Insufficient-Stock failure names a nomenclature and a quantity of
\* the request and carries as available quantity the committed quantity of
\* that row, read while no other transaction holds its lock: the starting
\* quantity less everything the committed requests took.
C10_Step ==
    \A t \in Txns :
        (outcome[t].kind = "none" /\ outcome'[t].kind = "InsufficientStock") =>
            LET e == outcome'[t]
                n == e.nomenclature_id
            IN /\ n \in NomIds
               /\ \A l \in nom_lock : l[1] = n => l[2] = t
               /\ e.available_quantity = nomenclatures[n].quantity
               /\ e.available_quantity = InitQuantity - CommittedQty(n)
               /\ e.requested_quantity > e.available_quantity
               /\ IF req[t].op = "add"
                  THEN n = req[t].nomenclature_id /\ e.requested_quantity = req[t].quantity
                  ELSE \E i \in 1..Len(req[t].items) :
                          /\ req[t].items[i].nomenclature_id = n
                          /\ req[t].items[i].quantity = e.requested_quantity

\* C10: every Insufficient-Stock carries the committed quantity read under
\* the lock as available quantity.
C10_InsufficientStockPayload == [][C10_Step]_vars

\* A request was refused for a quantity the starting stock covered: the
\* available quantity it carries is what an earlier commit left.
C10_Witness ==
    \E t \in Txns :
        /\ outcome[t].kind = "InsufficientStock"
        /\ outcome[t].available_quantity < InitQuantity
        /\ outcome[t].requested_quantity <= InitQuantity

\* ----------------------------------------------------------------- C11
\* C11: the commit of a create-full-order with k lines adds exactly one
\* order, bound to the request's client, and exactly k order items under it,
\* after the items that existed; the i-th of them has the nomenclature and
\* the quantity of the i-th line and the catalog price of that nomenclature,
\* and no other item belongs to the new order.
CreateCommits(t) == req[t].op = "create" /\ pc[t] = "returned" /\ pc'[t] = "done"

C11_Step ==
    \A t \in Txns :
        CreateCommits(t) =>
            LET items == req[t].items
                k == Len(items)
                base == Len(order_items)
                o == order_db[t]
            IN /\ ~OrderExists(o)
               /\ orders' = orders \cup {[id |-> o, client_id |-> req[t].client_id]}
               /\ outcome'[t] = [kind |-> "ok", order_id |-> o]
               /\ Len(order_items') = base + k
               /\ \A i \in 1..base : order_items'[i].order_id # o
               /\ \A i \in 1..k :
                      order_items'[base + i] =
                          [order_id |-> o,
                           nomenclature_id |-> items[i].nomenclature_id,
                           quantity |-> items[i].quantity,
                           price_at_purchase |->
                               nomenclatures[items[i].nomenclature_id].price]

\* C11: a committed create-full-order adds one order of the client and one
\* item per line, in input order, at the catalog price.
C11_OrderAndItemsCreated == [][C11_Step]_vars

\* A create-full-order with two lines for different nomenclatures has
\* committed after a catalog price change: its two items follow the items
\* that existed, in input order, and one carries the changed price.
C11_Witness ==
    \E t \in Txns :
        /\ req[t].op = "create" /\ pc[t] = "done"
        /\ Len(req[t].items) = 2
        /\ req[t].items[1].nomenclature_id # req[t].items[2].nomenclature_id
        /\ Len(order_items) = Len(InitOrderItems) + 2
        /\ \A i \in 1..2 :
               LET it == order_items[Len(InitOrderItems) + i]
               IN /\ it.order_id = outcome[t].order_id
                  /\ it.nomenclature_id = req[t].items[i].nomenclature_id
        /\ \E i \in 1..2 :
               order_items[Len(InitOrderItems) + i].price_at_purchase
                   # InitPrice[req[t].items[i].nomenclature_id]

\* ----------------------------------------------------------------- C12
\* C12: a committed create-full-order leaves, for every nomenclature, as
\* many items under the new order as lines name it, each with its line's
\* quantity; an add-item that reaches the item lookup on a pair that has an
\* item merges: it goes on with that item loaded, adds no item, and its
\* commit raises the quantity of that item by the requested quantity and
\* leaves the number of items of the pair as it was.
LinesOf(items, n) == {i \in 1..Len(items) : items[i].nomenclature_id = n}

C12_CreateStep ==
    \A t \in Txns :
        CreateCommits(t) =>
            \A n \in NomIds :
                /\ Cardinality(ItemIdsIn(order_items', order_db[t], n))
                       = Cardinality(LinesOf(req[t].items, n))
                /\ \A i \in LinesOf(req[t].items, n) :
                       order_items'[Len(order_items) + i].quantity
                           = req[t].items[i].quantity

C12_AddStep ==
    \A t \in Txns :
        LET o == req[t].order_id
            n == req[t].nomenclature_id
        IN (req[t].op = "add" /\ ItemIdsOf(o, n) # {}) =>
              /\ (pc[t] = "lock_item" /\ pc'[t] # "lock_item"
                      /\ outcome'[t].kind # "Cancelled")
                     => /\ pc'[t] = "returned"
                        /\ existing_item'[t].id \in ItemIdsOf(o, n)
                        /\ new_items'[t] = << >>
              /\ (pc[t] = "returned" /\ pc'[t] = "committed")
                     => /\ ItemIdsIn(order_items', o, n) = ItemIdsOf(o, n)
                        /\ \E i \in ItemIdsOf(o, n) :
                               order_items'[i].quantity
                                   = order_items[i].quantity + req[t].quantity

\* C12: create-full-order makes one item per line, add-item always merges
\* into the existing item of its pair.
C12_CreateNeverMergesAddAlwaysMerges == [][C12_CreateStep /\ C12_AddStep]_vars

\* ----------------------------------------------------------------- C13
\* C13: when the validation of a create-full-order ends, it has passed if
\* no line is invalid, and otherwise the failure is that of the earliest
\* line, in input order, whose nomenclature has no row or whose quantity
\* exceeds the quantity of its row: Nomenclature-Not-Found with that line's
\* identity, or Insufficient-Stock with that line's identity, the row's
\* quantity and the line's quantity.
InvalidLines(items) ==
    {i \in 1..Len(items) :
        \/ items[i].nomenclature_id \notin NomIds
        \/ items[i].quantity > nomenclatures[items[i].nomenclature_id].quantity}

ValidationEnds(t) ==
    /\ req[t].op = "create"
    /\ pc[t] = "start" /\ pc'[t] # "start"
    /\ outcome'[t].kind # "Cancelled"

C13_Step ==
    \A t \in Txns :
        ValidationEnds(t) =>
            LET items == req[t].items
                bad == InvalidLines(items)
            IN IF bad = {}
               THEN pc'[t] = "validated" /\ outcome'[t] = NoOutcome
               ELSE LET i == CHOOSE j \in bad : \A k \in bad : j <= k
                        n == items[i].nomenclature_id
                    IN /\ pc'[t] = "aborted"
                       /\ outcome'[t] =
                              IF n \notin NomIds
                              THEN NomenclatureNotFoundError(n)
                              ELSE InsufficientStockError(
                                       n, nomenclatures[n].quantity, items[i].quantity)

\* C13: create-full-order fails on the first invalid line in input order.
C13_FirstInvalidLineReported == [][C13_Step]_vars

\* A create-full-order whose first line asks for more than is left and
\* whose second line names an unknown nomenclature was refused with
\* Insufficient-Stock for the first line.
C13_Witness ==
    \E t \in Txns :
        /\ req[t].op = "create" /\ pc[t] = "aborted"
        /\ Len(req[t].items) = 2
        /\ req[t].items[2].nomenclature_id \notin NomIds
        /\ outcome[t].kind = "InsufficientStock"
        /\ outcome[t].nomenclature_id = req[t].items[1].nomenclature_id
        /\ outcome[t].requested_quantity = req[t].items[1].quantity

\* ----------------------------------------------------------------- C14
\* C14: an add-item holds the lock of an order item only while it holds the
\* lock of that item's nomenclature, which it took first, and it reaches the
\* item lookup only with the nomenclature locked; and there is no set of
\* add-item requests in which every one waits for a lock that another one of
\* the set holds.
AddWaitsFor(t, u) ==
    /\ t # u
    /\ req[t].op = "add"
    /\ \/ pc[t] = "lock_nom" /\ <<req[t].nomenclature_id, u>> \in nom_lock
       \/ /\ pc[t] = "lock_item"
          /\ \E i \in ItemIdsOf(req[t].order_id, req[t].nomenclature_id) :
                 <<i, u>> \in item_lock

AddDeadlock ==
    \E S \in SUBSET Txns :
        /\ S # {}
        /\ \A t \in S : req[t].op = "add" /\ \E u \in S : AddWaitsFor(t, u)

NomenclatureLockedFirst ==
    /\ \A l \in item_lock :
           /\ req[l[2]].op = "add"
           /\ <<order_items[l[1]].nomenclature_id, l[2]>> \in nom_lock
    /\ \A t \in Txns :
           (req[t].op = "add" /\ pc[t] \in {"lock_item", "returned"})
               => <<req[t].nomenclature_id, t>> \in nom_lock

\* C14: add-item locks the nomenclature before the order item, and add-item
\* requests never wait for each other in a cycle.
C14_AddItemLockOrder == NomenclatureLockedFirst /\ ~AddDeadlock

\* An add-item waits for the nomenclature lock of another add-item, which
\* holds that lock and the lock of the order item of the same pair.
C14_Witness ==
    \E t, u \in Txns :
        /\ AddWaitsFor(t, u)
        /\ req[u].op = "add"
        /\ req[u].order_id = req[t].order_id
        /\ <<req[u].nomenclature_id, u>> \in nom_lock
        /\ <<existing_item[u].id, u>> \in item_lock

\* ----------------------------------------------------------------- C15
\* C15: a create-full-order that has left the locking statement holds the
\* lock of every requested nomenclature that has a row; and of two
\* create-full-order requests in flight that share two or more rows, never
\* both hold a shared row: one of them obtains every shared row before the
\* other obtains any.
HeldBy(t) == {l[1] : l \in {m \in nom_lock : m[2] = t}}

CreateInFlight(t) ==
    req[t].op = "create" /\ pc[t] \in {"start", "validated", "flushed", "returned"}

SharedRows(t, u) == RequestedNomIds(req[t]) \cap RequestedNomIds(req[u]) \cap NomIds

BatchLockedBeforeValidation ==
    \A t \in Txns :
        (req[t].op = "create" /\ pc[t] \in {"validated", "flushed", "returned"})
            => (RequestedNomIds(req[t]) \cap NomIds) \subseteq HeldBy(t)

SharedRowsSplit(t, u) ==
    /\ t # u
    /\ CreateInFlight(t) /\ CreateInFlight(u)
    /\ Cardinality(SharedRows(t, u)) >= 2
    /\ HeldBy(t) \cap SharedRows(t, u) # {}
    /\ HeldBy(u) \cap SharedRows(t, u) # {}

\* C15: all requested rows are locked before validation, and overlapping
\* create-full-order requests never split the rows they share.
C15_BatchLockNoDeadlock ==
    /\ BatchLockedBeforeValidation
    /\ \A t, u \in Txns : ~SharedRowsSplit(t, u)

\* ----------------------------------------------------------------- C16
\* C16: no step other than a commit changes a committed order, order item
\* or quantity, so whatever a request did before it is aborted was never
\* part of the committed state; the step that aborts a request, from any
\* position, changes no committed row, leaves the request without any row
\* lock and without any pending object, and the request stays aborted.
CommitStep == \E t \in Txns : pc[t] = "returned" /\ pc'[t] \in {"committed", "done"}

C16_Step ==
    /\ ~CommitStep =>
           /\ UNCHANGED << orders, order_items >>
           /\ \A n \in NomIds : nomenclatures'[n].quantity = nomenclatures[n].quantity
    /\ \A t \in Txns :
           /\ (pc[t] # "aborted" /\ pc'[t] = "aborted")
                  => /\ InFlight(t)
                     /\ UNCHANGED db
                     /\ HoldsNoLock(t, nom_lock', item_lock')
                     /\ \A l \in nom_lock' : l \in nom_lock
                     /\ \A l \in item_lock' : l \in item_lock
           /\ AbortedStaysEmpty(t)

\* C16: an aborted request leaves the committed rows as they were and
\* holds no lock.
C16_AbortLeavesNothing == [][C16_Step]_vars

\* A create-full-order was cancelled after its order was inserted in the
\* transaction (the id sequence has advanced): no order has that id, the
\* committed rows are those of the start and the request holds no lock.
C16_Witness ==
    \E t \in Txns :
        /\ req[t].op = "create"
        /\ outcome[t].kind = "Cancelled"
        /\ Len(req[t].items) > 0
        /\ order_seq = 2
        /\ ~OrderExists(order_seq)
        /\ orders = InitOrders /\ order_items = InitOrderItems
        /\ \A n \in NomIds : nomenclatures[n].quantity = InitQuantity
        /\ HoldsNoLock(t, nom_lock, item_lock)

\* ----------------------------------------------------------------- C17
\* C17: the positions of a request group into Start, Locked-Validated,
\* Mutated, Committed and Aborted, and a request only moves along
\* Start -> Locked-Validated -> Mutated -> Committed or into Aborted, where
\* it stays.  It enters Locked-Validated holding the lock of every
\* nomenclature it names, all of which exist and cover each of its
\* quantities; it is in Mutated only with these locks held; a request that
\* fails a check goes to Aborted and that step changes no committed row.
Phase(t) ==
    CASE pc[t] = "idle" -> "Idle"
      [] pc[t] \in {"start", "lock_nom"} -> "Start"
      [] pc[t] \in {"lock_item", "validated"} -> "LockedValidated"
      [] pc[t] \in {"flushed", "returned"} -> "Mutated"
      [] pc[t] \in {"committed", "done"} -> "Committed"
      [] pc[t] = "aborted" -> "Aborted"

PhaseOrder ==
    {<<"Idle", "Start">>, <<"Start", "LockedValidated">>,
     <<"LockedValidated", "Mutated">>, <<"Mutated", "Committed">>,
     <<"Start", "Aborted">>, <<"LockedValidated", "Aborted">>,
     <<"Mutated", "Aborted">>}

NamedNomIds(r) == IF r.op = "add" THEN {r.nomenclature_id} ELSE RequestedNomIds(r)

LinesCovered(r) ==
    IF r.op = "add" THEN r.quantity <= nomenclatures[r.nomenclature_id].quantity
    ELSE \A i \in 1..Len(r.items) :
            r.items[i].quantity <= nomenclatures[r.items[i].nomenclature_id].quantity

C17_Step ==
    \A t \in Txns :
        /\ Phase(t)' # Phase(t) => <<Phase(t), Phase(t)'>> \in PhaseOrder
        /\ (Phase(t) = "Start" /\ Phase(t)' = "LockedValidated")
               => /\ NamedNomIds(req[t]) \subseteq NomIds
                  /\ LinesCovered(req[t])
                  /\ \A n \in NamedNomIds(req[t]) : <<n, t>> \in nom_lock'
        /\ Phase(t)' = "Mutated"
               => \A n \in NamedNomIds(req[t]) : <<n, t>> \in nom_lock'
        /\ (Phase(t)' = "Aborted" /\ Phase(t) # "Aborted")
               => /\ UNCHANGED db
                  /\ outcome'[t] # NoOutcome

\* C17: every request moves Start -> Locked-Validated -> Mutated ->
\* Committed or into Aborted, and never skips the lock or the validation.
C17_RequestStateMachine == [][C17_Step]_vars

\* One request has gone through every phase to Committed and another one
\* failed its validation and is Aborted.
C17_Witness ==
    \E t, u \in Txns :
        /\ Phase(t) = "Committed"
        /\ Phase(u) = "Aborted"
        /\ outcome[u].kind \in BusinessErrors
        /\ req[u].op = "create"

\* ----------------------------------------------------------------- C18
\* C18: the response to an add-item that ended with Order-Not-Found has
\* status 404, with Nomenclature-Not-Found 404, with Insufficient-Stock 400
\* and with the item 200 or 201; a business failure never has a 2xx status
\* and a success always has one.
Responded(t) == req[t].op = "add" /\ outcome[t].kind \notin {"none", "Cancelled"}

C18_StatusMapping ==
    \A t \in Txns :
        Responded(t) =>
            LET kind == outcome[t].kind
                code == StatusCode(outcome[t])
            IN /\ kind = "OrderNotFound" => code = 404
               /\ kind = "NomenclatureNotFound" => code = 404
               /\ kind = "InsufficientStock" => code = 400
               /\ kind = "ok" => code \in {200, 201}
               /\ kind \in BusinessErrors => code \notin 200..299
               /\ kind = "ok" <=> code \in 200..299

\* One add-item was answered with its item and another one was refused
\* because its order does not exist.
C18_Witness ==
    \E t, u \in Txns :
        /\ Responded(t) /\ outcome[t].kind = "ok"
        /\ Responded(u) /\ outcome[u].kind = "OrderNotFound"
        /\ StatusCode(outcome[t]) # StatusCode(outcome[u])

\* ----------------------------------------------------------------- C19
\* C19: the validation of a create-full-order passes exactly when every
\* line names a nomenclature with a row and asks for no more than the
\* quantity the request read when it locked the row; what the other lines of
\* the request ask of the same row plays no part, and the loaded quantity is
\* not changed by the validation.
C19_Step ==
    \A t \in Txns :
        ValidationEnds(t) =>
            LET items == req[t].items
                snapshot == nomenclature_map[t]
            IN /\ pc'[t] = "validated"
                    <=> \A i \in 1..Len(items) :
                           /\ items[i].nomenclature_id \in DOMAIN snapshot
                           /\ items[i].quantity
                                  <= snapshot[items[i].nomenclature_id].quantity
               /\ pc'[t] = "validated" => nomenclature_map'[t] = snapshot

\* C19: each line is validated against the locked snapshot alone.
C19_ValidatedAgainstSnapshot == [][C19_Step]_vars

\* A create-full-order has passed validation although its lines for one
\* nomenclature together ask for more than the quantity it read.
C19_Witness ==
    \E t \in Txns : \E n \in NomIds :
        /\ req[t].op = "create" /\ pc[t] = "validated"
        /\ Cardinality(LinesOf(req[t].items, n)) = 2
        /\ RequestedOf(req[t], n) > nomenclature_map[t][n].quantity

\* ----------------------------------------------------------------- C20
\* C20: the commit of a create-full-order lowers the quantity of every
\* nomenclature by the sum of the quantities of the lines that name it, from
\* the quantity the row had while the request held its lock; a nomenclature
\* no line names keeps its quantity, and no price changes.
C20_Step ==
    \A t \in Txns :
        CreateCommits(t) =>
            \A n \in NomIds :
                /\ nomenclatures'[n].quantity
                       = nomenclatures[n].quantity - RequestedOf(req[t], n)
                /\ n \notin RequestedNomIds(req[t])
                       => nomenclatures'[n] = nomenclatures[n]
                /\ nomenclatures'[n].price = nomenclatures[n].price

\* C20: a committed create-full-order decrements each nomenclature by the
\* sum of its lines and leaves the others alone.
C20_CreateDecrement == [][C20_Step]_vars

\* A create-full-order with two lines for one nomenclature has committed,
\* nothing else has, and that nomenclature is down by both quantities.
C20_Witness ==
    \E t \in Txns : \E n \in NomIds :
        /\ req[t].op = "create" /\ pc[t] = "done"
        /\ Cardinality(LinesOf(req[t].items, n)) = 2
        /\ \A u \in Txns \ {t} : ~Committed(u)
        /\ nomenclatures[n].quantity
               = InitQuantity - req[t].items[1].quantity - req[t].items[2].quantity
        /\ \A m \in NomIds \ {n} : nomenclatures[m].quantity = InitQuantity

\* ----------------------------------------------------------------- C21
\* C21: a create-full-order whose transaction holds an inserted Order, a
\* pending order item or a loaded nomenclature with a changed quantity has
\* passed validation for every line: each line names a nomenclature with a
\* row and asks for no more than the committed quantity of that row, which
\* the request has locked.  The id sequence of orders advances only for a
\* request that has passed validation.
HasMutated(t) ==
    \/ order_db[t] # 0
    \/ new_items[t] # << >>
    \/ \E n \in DOMAIN nomenclature_map[t] :
          nomenclature_map[t][n].quantity # nomenclatures[n].quantity

AllLinesPassed(t) ==
    \A i \in 1..Len(req[t].items) :
        LET n == req[t].items[i].nomenclature_id
        IN /\ n \in NomIds
           /\ <<n, t>> \in nom_lock
           /\ req[t].items[i].quantity <= nomenclatures[n].quantity

C21_Inv ==
    \A t \in Txns :
        (req[t].op = "create" /\ ~Ended(t) /\ HasMutated(t))
            => pc[t] \in {"flushed", "returned"} /\ AllLinesPassed(t)

C21_Step ==
    order_seq' # order_seq
        => \E t \in Txns :
              /\ req[t].op = "create" /\ pc[t] = "validated"
              /\ AllLinesPassed(t)
              /\ ~HasMutated(t)

\* C21: in create-full-order nothing is inserted or decremented, even in
\* the open transaction, before every line has passed both checks.
C21_ValidationBeforeMutation == []C21_Inv /\ [][C21_Step]_vars

\* A create-full-order with two lines has passed validation and has then
\* inserted its order and decremented both lines in its transaction.
C21_Witness ==
    \E t \in Txns :
        /\ req[t].op = "create" /\ pc[t] = "returned"
        /\ Len(req[t].items) = 2
        /\ order_db[t] # 0
        /\ Len(new_items[t]) = 2
        /\ \A n \in RequestedNomIds(req[t]) :
               nomenclature_map[t][n].quantity
                   = nomenclatures[n].quantity - RequestedOf(req[t], n)

\* ----------------------------------------------------------------- C22
\* C22: an add-item that has not finished the order lookup, the nomenclature
\* lock-and-check and the existing-item lock-and-fetch has changed nothing:
\* no item is loaded with a new quantity, no item is pending, the loaded
\* nomenclature has its committed quantity.  So the step in which an add-item
\* fails, whatever the failure, starts from an untouched transaction and
\* changes no committed row.
AddUntouched(t) ==
    /\ existing_item[t] = NoItem
    /\ new_items[t] = << >>
    /\ \A n \in DOMAIN nomenclature_map[t] :
           nomenclature_map[t][n] = nomenclatures[n]

C22_Inv ==
    \A t \in Txns :
        (req[t].op = "add" /\ pc[t] \in {"start", "lock_nom", "lock_item"})
            => AddUntouched(t)

C22_Step ==
    \A t \in Txns :
        (req[t].op = "add" /\ outcome[t].kind = "none"
            /\ outcome'[t].kind \in BusinessErrors \cup {"MultipleResultsFound"})
            => /\ AddUntouched(t)
               /\ UNCHANGED db
               /\ pc'[t] = "aborted"

\* C22: add-item writes nothing before its reads and checks are done, so
\* every failure finds nothing mutated.
C22_AddChecksBeforeWrites == []C22_Inv /\ [][C22_Step]_vars

\* An add-item failed at the existing-item lookup, and the committed
\* quantities are the starting ones less what the committed requests took.
C22_Witness ==
    \E t \in Txns :
        /\ req[t].op = "add"
        /\ outcome[t].kind = "MultipleResultsFound"
        /\ \A n \in NomIds :
               nomenclatures[n].quantity = InitQuantity - CommittedQty(n)

\* ----------------------------------------------------------------- C23
\* C23: a transaction that has not ended holds the row lock of every
\* nomenclature it has loaded and of the order item it has loaded, so in
\* particular of every row whose quantity it has changed; no other
\* transaction holds a lock of the same row; the value it read is still the
\* committed one; and a lock is given up only in the step that ends its
\* transaction (commit or rollback).
HoldsLoadedRows(t) ==
    /\ \A n \in DOMAIN nomenclature_map[t] :
           /\ <<n, t>> \in nom_lock
           /\ \A l \in nom_lock : l[1] = n => l[2] = t
           /\ nomenclature_map[t][n].price = nomenclatures[n].price
           /\ nomenclature_map[t][n].quantity # nomenclatures[n].quantity
                  => nomenclature_map[t][n].quantity
                         = nomenclatures[n].quantity - RequestedOf(req[t], n)
    /\ existing_item[t].id # 0
           => /\ <<existing_item[t].id, t>> \in item_lock
              /\ \A l \in item_lock : l[1] = existing_item[t].id => l[2] = t
              /\ existing_item[t].quantity
                     = order_items[existing_item[t].id].quantity + req[t].quantity

C23_Inv == \A t \in Txns : ~Ended(t) => HoldsLoadedRows(t)

C23_Step ==
    \A t \in Txns :
        /\ (\E l \in nom_lock : l[2] = t /\ l \notin nom_lock')
               => ~Ended(t) /\ pc'[t] \in {"committed", "done", "aborted"}
        /\ (\E l \in item_lock : l[2] = t /\ l \notin item_lock')
               => ~Ended(t) /\ pc'[t] \in {"committed", "done", "aborted"}

\* C23: quantities are changed only under the row's exclusive lock, held
\* from the read of the checked value to the end of the transaction.
C23_MutationUnderLock == []C23_Inv /\ [][C23_Step]_vars

\* An add-item has raised the quantity of an existing item and lowered the
\* quantity of its nomenclature in its transaction, and holds both locks.
C23_Witness ==
    \E t \in Txns :
        /\ req[t].op = "add" /\ pc[t] = "returned"
        /\ existing_item[t].id # 0
        /\ existing_item[t].quantity > order_items[existing_item[t].id].quantity
        /\ nomenclature_map[t][req[t].nomenclature_id].quantity
               < nomenclatures[req[t].nomenclature_id].quantity
        /\ <<req[t].nomenclature_id, t>> \in nom_lock
        /\ <<existing_item[t].id, t>> \in item_lock

\* ----------------------------------------------------------------- C24
\* C24: under fair scheduling, if every transaction that holds a row lock
\* eventually commits or rolls back, then every request that has arrived
\* eventually is committed or aborted; and a request that has ended stays
\* ended with the input it had (it is not run again).
HoldsLock(t) == \E l \in nom_lock \cup item_lock : l[2] = t

Arrived(t) == pc[t] # "idle"

NoRetry ==
    \A t \in Txns :
        /\ Ended(t) => Ended(t)' /\ outcome'[t].kind \in {outcome[t].kind, "ok"}
        /\ Arrived(t) => req'[t] = req[t]

C24_EveryRequestEnds ==
    /\ (\A t \in Txns : HoldsLock(t) ~> Ended(t))
           => \A t \in Txns : Arrived(t) ~> Ended(t)
    /\ [][NoRetry]_vars

\* A create-full-order that holds the row of one nomenclature waits for the
\* row of another one, which a request that has decremented it holds.
C24_Witness ==
    \E t, u \in Txns : \E n \in NomIds :
        /\ t # u
        /\ req[t].op = "create" /\ pc[t] = "start"
        /\ HoldsLock(t)
        /\ n \in RequestedNomIds(req[t]) \ DOMAIN nomenclature_map[t]
        /\ <<n, u>> \in nom_lock
        /\ pc[u] = "returned"

\* ----------------------------------------------------------------- C25
\* C25: a request that has arrived and not ended can take its next step
\* unless it is at a lock acquisition and another transaction that has not
\* ended holds the lock of a row it requests there; so two requests whose
\* rows are disjoint never wait for each other.
NomRowsOf(t) == NamedNomIds(req[t]) \cap NomIds

ItemRowsOf(t) ==
    IF req[t].op = "add" THEN ItemIdsOf(req[t].order_id, req[t].nomenclature_id) ELSE {}

Blocked(t) == Arrived(t) /\ ~Ended(t) /\ ~ENABLED Step(t)

HoldsRowOf(u, t) ==
    \/ \E n \in NomRowsOf(t) : <<n, u>> \in nom_lock
    \/ \E i \in ItemRowsOf(t) : <<i, u>> \in item_lock

C25_BlockedOnlyByRowHolder ==
    /\ \A l \in nom_lock \cup item_lock : ~Ended(l[2])
    /\ \A t \in Txns :
           Blocked(t) =>
               /\ \/ req[t].op = "add" /\ pc[t] \in {"lock_nom", "lock_item"}
                  \/ req[t].op = "create" /\ pc[t] = "start"
               /\ \E u \in Txns \ {t} : ~Ended(u) /\ HoldsRowOf(u, t)

\* Two requests for different nomenclatures have both locked and
\* decremented their row, neither having ended.
C25_Witness ==
    \E t, u \in Txns :
        /\ t # u
        /\ pc[t] = "returned" /\ pc[u] = "returned"
        /\ HoldsLock(t) /\ HoldsLock(u)
        /\ NomRowsOf(t) \cap NomRowsOf(u) = {}
        /\ ~Blocked(t) /\ ~Blocked(u)

\* ----------------------------------------------------------------- C26
\* C26: of two add-item requests for the same order and different
\* nomenclatures neither holds a row the other requests, so neither waits
\* for the other; and each of them, once its order is found, goes on to its
\* commit whenever its nomenclature exists and the locked quantity covers
\* its quantity.
SameOrderOtherNom(t, u) ==
    /\ t # u
    /\ req[t].op = "add" /\ req[u].op = "add"
    /\ req[t].order_id = req[u].order_id
    /\ req[t].nomenclature_id # req[u].nomenclature_id

C26_Inv ==
    \A t, u \in Txns :
        SameOrderOtherNom(t, u) => ~HoldsRowOf(u, t) /\ ~Blocked(t)

C26_Step ==
    \A t, u \in Txns :
        (SameOrderOtherNom(t, u) /\ pc'[t] # pc[t] /\ outcome'[t].kind # "Cancelled") =>
            LET n == req[t].nomenclature_id
            IN /\ (pc[t] = "lock_nom" /\ n \in NomIds
                      /\ req[t].quantity <= nomenclatures[n].quantity)
                     => pc'[t] = "lock_item"
               /\ pc[t] = "lock_item" => pc'[t] = "returned"
               /\ pc[t] = "returned" => pc'[t] = "committed"

\* C26: add-item requests for one order and different nomenclatures never
\* wait for each other and both commit when each has sufficient stock.
C26_SameOrderNoWait == []C26_Inv /\ [][C26_Step]_vars

\* ----------------------------------------------------------------- C27
\* A step of the catalog, not of the order service.
PriceUpdated == price_changes' # price_changes

C27_Inv == \A i \in 1..Len(order_items) : order_items[i].quantity >= 1

C27_Step ==
    /\ \A n \in NomIds :
          /\ nomenclatures'[n].quantity <= nomenclatures[n].quantity
          /\ ~PriceUpdated => nomenclatures'[n].price = nomenclatures[n].price
    /\ orders \subseteq orders'
    /\ Len(order_items') >= Len(order_items)
    /\ \A i \in 1..Len(order_items) :
          /\ order_items'[i].order_id = order_items[i].order_id
          /\ order_items'[i].nomenclature_id = order_items[i].nomenclature_id
          /\ order_items'[i].quantity >= order_items[i].quantity

\* C27: in every step of add-item and create-full-order requests no
\* nomenclature's quantity grows and no price is written, no existing item's
\* quantity shrinks, every item's quantity is at least 1, and no order or
\* item is deleted.
C27_StockDownLinesUp == []C27_Inv /\ [][C27_Step]_vars

\* An item was merged into, an order with its items was created, and stock
\* was taken.
C27_Witness ==
    /\ \E i \in 1..Len(InitOrderItems) : order_items[i].quantity > InitOrderItems[i].quantity
    /\ orders # InitOrders
    /\ Len(order_items) > Len(InitOrderItems)
    /\ \E n \in NomIds : nomenclatures[n].quantity < InitQuantity

\* ----------------------------------------------------------------- C28
\* The step in which the caller of add-item commits request t.
AddCommits(t) == req[t].op = "add" /\ pc[t] = "returned" /\ pc'[t] = "committed"

\* Items i of the old table that the step changed.
ChangedItems == {i \in 1..Len(order_items) : order_items'[i] # order_items[i]}

C28_Step ==
    \A t \in Txns :
        AddCommits(t) =>
            LET o == req[t].order_id
                n == req[t].nomenclature_id
                q == req[t].quantity
                ids == ItemIdsOf(o, n)
            IN /\ nomenclatures' = [nomenclatures EXCEPT ![n].quantity = @ - q]
               /\ orders' = orders
               /\ order_seq' = order_seq
               /\ IF ids = {}
                  THEN /\ ChangedItems = {}
                       /\ order_items' = Append(order_items,
                              [order_id |-> o, nomenclature_id |-> n, quantity |-> q,
                               price_at_purchase |-> order_items'[Len(order_items')].price_at_purchase])
                  ELSE /\ Len(order_items') = Len(order_items)
                       /\ Cardinality(ids) = 1
                       /\ ChangedItems = ids
                       /\ \A i \in ids :
                             order_items' = [order_items EXCEPT ![i].quantity = @ + q]

\* C28: the commit of an add-item on (o, n) takes q from n's quantity and
\* changes the one item of (o, n), by a merge or by an insert; every other
\* nomenclature, every other item and every order stays as it was.
C28_AddItemFrame == [][C28_Step]_vars

\* An add-item has committed a merge next to items of another order and of
\* another nomenclature.
C28_Witness ==
    \E t \in Txns :
        /\ req[t].op = "add"
        /\ Committed(t)
        /\ \E i \in 1..Len(order_items) : order_items[i].order_id # req[t].order_id
        /\ \E i \in 1..Len(InitOrderItems) : order_items[i].quantity > InitOrderItems[i].quantity

\* ----------------------------------------------------------------- C29
\* Sum of the quantities of the items of the table that reference
\* nomenclature n.
OrderedQuantity(items, n) ==
    SumTo([i \in 1..Len(items) |->
              IF items[i].nomenclature_id = n THEN items[i].quantity ELSE 0],
          Len(items))

\* C29: in every committed state, for every nomenclature n, the quantity of
\* n plus the quantities of all items that reference n is what it was in
\* the initial state.
C29_StockConserved ==
    \A n \in NomIds :
        nomenclatures[n].quantity + OrderedQuantity(order_items, n)
            = InitQuantity + OrderedQuantity(InitOrderItems, n)

\* An add-item and a create-full-order have both committed on the same
\* nomenclature.
C29_Witness ==
    \E t, u \in Txns : \E n \in NomIds :
        /\ req[t].op = "add" /\ Committed(t) /\ RequestedOf(req[t], n) > 0
        /\ req[u].op = "create" /\ Committed(u) /\ RequestedOf(req[u], n) > 0

\* ----------------------------------------------------------------- C30
\* Sum of the quantities of the items of the table for the pair (o, n).
PairQuantity(items, o, n) ==
    SumTo([i \in 1..Len(items) |->
              IF items[i].order_id = o /\ items[i].nomenclature_id = n
              THEN items[i].quantity ELSE 0],
          Len(items))

\* No transaction commits in the step.
NoCommit == \A t \in Txns : ~(pc[t] = "returned" /\ pc'[t] \in {"committed", "done"})

C30_Step ==
    /\ NoCommit =>
          /\ \A n \in NomIds : nomenclatures'[n].quantity = nomenclatures[n].quantity
          /\ order_items' = order_items
          /\ orders' = orders
    /\ \A t \in Txns :
          AddCommits(t) =>
              LET o == req[t].order_id
                  n == req[t].nomenclature_id
                  q == req[t].quantity
              IN /\ nomenclatures'[n].quantity = nomenclatures[n].quantity - q
                 /\ PairQuantity(order_items', o, n) = PairQuantity(order_items, o, n) + q

\* C30: the committed tables change only in a commit step, and the commit
\* step of an add-item shows the decrement of the nomenclature and the
\* created or incremented item of the pair together.
C30_DecrementAndUpsertTogether == [][C30_Step]_vars

\* One add-item has committed while another holds its decrement and its item
\* in its session only, not yet visible.
C30_Witness ==
    \E t, u \in Txns :
        /\ req[t].op = "add" /\ pc[t] = "returned"
        /\ nomenclature_map[t][req[t].nomenclature_id].quantity
              < nomenclatures[req[t].nomenclature_id].quantity
        /\ req[u].op = "add" /\ Committed(u)

\* ----------------------------------------------------------------- C31
\* Quantity that the committed add-item requests for the pair (o, n) asked
\* for.
CommittedPairQty(o, n) ==
    SumTo([t \in Txns |->
              IF Committed(t) /\ req[t].op = "add" /\ req[t].order_id = o
                 /\ req[t].nomenclature_id = n
              THEN req[t].quantity ELSE 0],
          NumTxns)

\* C31: with one item per pair at the start and add-item as the only writer,
\* every committed state holds at most one item per (order, nomenclature)
\* pair, and that item carries the initial quantity of the pair plus the
\* quantities of all committed add-items for it.
C31_OneItemPerPair ==
    \A o \in OrderIdInputs : \A n \in NomIds :
        /\ Cardinality(ItemIdsOf(o, n)) <= 1
        /\ PairQuantity(order_items, o, n)
              = PairQuantity(InitOrderItems, o, n) + CommittedPairQty(o, n)

\* Two add-items for a pair without an item have both committed.
C31_Witness ==
    \E t, u \in Txns : \E o \in OrderIdInputs : \E n \in NomIds :
        /\ t # u
        /\ ItemIdsIn(InitOrderItems, o, n) = {}
        /\ \A x \in {t, u} :
              /\ req[x].op = "add" /\ Committed(x)
              /\ req[x].order_id = o /\ req[x].nomenclature_id = n
        /\ Cardinality(ItemIdsOf(o, n)) = 1

\* ----------------------------------------------------------------- C32
\* C32: a request is at the item lock-and-fetch only while it holds the lock
\* of its nomenclature, every item lock is held by an add-item request that
\* holds the lock of the item's nomenclature, and a request at the item
\* lock-and-fetch never waits: no other transaction holds an item of its
\* pair, its step is enabled.
C32_ItemLockUncontended ==
    /\ \A t \in Txns :
          pc[t] = "lock_item" =>
              /\ req[t].op = "add"
              /\ <<req[t].nomenclature_id, t>> \in nom_lock
              /\ \A l \in item_lock :
                    l[1] \in ItemIdsOf(req[t].order_id, req[t].nomenclature_id) => l[2] = t
              /\ ENABLED AddUpsert(t)
    /\ \A l \in item_lock :
          /\ req[l[2]].op = "add"
          /\ <<order_items[l[1]].nomenclature_id, l[2]>> \in nom_lock

\* A request is at the item lock-and-fetch of a pair that has an item while
\* another request for the same pair waits for the nomenclature.
C32_Witness ==
    \E t, u \in Txns :
        /\ t # u
        /\ pc[t] = "lock_item"
        /\ ItemIdsOf(req[t].order_id, req[t].nomenclature_id) # {}
        /\ req[u].op = "add" /\ pc[u] = "lock_nom"
        /\ req[u].order_id = req[t].order_id
        /\ req[u].nomenclature_id = req[t].nomenclature_id

\* ----------------------------------------------------------------- C33
\* Request t is an add-item for a pair that holds more than one item, and it
\* takes a step of its own that is not a cancellation.
DuplicatePairStep(t) ==
    /\ req[t].op = "add"
    /\ Cardinality(ItemIdsOf(req[t].order_id, req[t].nomenclature_id)) > 1
    /\ pc'[t] # pc[t]
    /\ outcome'[t].kind # "Cancelled"

\* The step leaves the committed tables as they are and the request ends
\* with the lookup's fault.
FailsAtLookup(t) ==
    /\ pc'[t] = "aborted"
    /\ outcome'[t].kind = "MultipleResultsFound"
    /\ outcome'[t].kind \notin BusinessErrors
    /\ db' = db

C33_Step ==
    \A t \in Txns :
        DuplicatePairStep(t) =>
            /\ pc[t] = "start" => pc'[t] = "lock_nom" /\ db' = db
            /\ pc[t] = "lock_nom" =>
                  IF req[t].quantity <= nomenclatures[req[t].nomenclature_id].quantity
                  THEN pc'[t] = "lock_item" /\ db' = db
                  ELSE /\ pc'[t] = "aborted"
                       /\ outcome'[t].kind = "InsufficientStock"
                       /\ db' = db
            /\ pc[t] = "lock_item" => FailsAtLookup(t)
            /\ pc[t] \in {"start", "lock_nom", "lock_item"}

\* C33 (amended): an add-item for a pair that holds two items of one order,
\* with a quantity the nomenclature's stock covers, reaches the item lookup
\* and fails there with MultipleResultsFound, not a business error; with a
\* quantity above the stock it fails before the lookup with
\* Insufficient-Stock; either way stock and both items stay unchanged and
\* nothing is merged or created.
C33_DuplicatePairFails == [][C33_Step]_vars

C33_OriginalStep ==
    \A t \in Txns :
        DuplicatePairStep(t) =>
            /\ pc[t] = "start" => pc'[t] = "lock_nom" /\ db' = db
            /\ pc[t] = "lock_nom" => pc'[t] = "lock_item" /\ db' = db
            /\ pc[t] = "lock_item" => FailsAtLookup(t)
            /\ pc[t] \in {"start", "lock_nom", "lock_item"}

\* C33: every add-item for a pair that holds two items of one order fails at
\* the item lookup with the infrastructure fault, never with a business
\* error, and changes nothing.
C33_EveryAddFailsAtLookup == [][C33_OriginalStep]_vars

\* An add-item for a pair with two items has failed at the lookup while the
\* stock covered its quantity.
C33_Witness ==
    \E t \in Txns :
        /\ req[t].op = "add"
        /\ pc[t] = "aborted"
        /\ outcome[t].kind = "MultipleResultsFound"
        /\ Cardinality(ItemIdsOf(req[t].order_id, req[t].nomenclature_id)) = 2
        /\ req[t].quantity <= nomenclatures[req[t].nomenclature_id].quantity

\* ----------------------------------------------------------------- C34
\* Request t is a create-full-order for a client identity without a row, and
\* it takes a step of its own that is not a cancellation.
NoClientStep(t) ==
    /\ req[t].op = "create"
    /\ req[t].client_id \notin ClientIds
    /\ pc'[t] # pc[t]
    /\ outcome'[t].kind # "Cancelled"

C34_Step ==
    \A t \in Txns :
        NoClientStep(t) =>
            /\ pc[t] \in {"start", "validated"}
            /\ db' = db
            /\ (pc[t] = "start" /\ ~HasInvalidLine(req[t].items)) => pc'[t] = "validated"
            /\ pc[t] = "validated" =>
                  /\ pc'[t] = "aborted"
                  /\ outcome'[t] = IntegrityError
                  /\ outcome'[t].kind \notin BusinessErrors
                  /\ ~HasMutated(t)
                  /\ HoldsNoLock(t, nom_lock', item_lock')

\* C34: a create-full-order for a client identity with no Client row and
\* lines that are all valid passes validation and fails at the Order insert
\* with the integrity fault, not a business error, with no quantity
\* decremented and no item created; no such request gets past the insert.
C34_MissingClientFailsAtInsert == [][C34_Step]_vars

\* A create-full-order with lines for a client without a row has failed at
\* the insert.
C34_Witness ==
    \E t \in Txns :
        /\ req[t].op = "create"
        /\ req[t].client_id \notin ClientIds
        /\ req[t].items # << >>
        /\ pc[t] = "aborted"
        /\ outcome[t] = IntegrityError

\* ----------------------------------------------------------------- C35
\* Request t is a create-full-order without lines.
EmptyCreate(t) == req[t].op = "create" /\ req[t].items = << >>

C35_Inv ==
    \A t \in Txns :
        EmptyCreate(t) =>
            /\ HoldsNoLock(t, nom_lock, item_lock)
            /\ nomenclature_map[t] = EmptyMap
            /\ new_items[t] = << >>
            /\ ~Blocked(t)
            /\ outcome[t].kind \in {"none", "ok", "Cancelled", "IntegrityError"}
            /\ outcome[t].kind = "IntegrityError" => req[t].client_id \notin ClientIds

C35_Step ==
    \A t \in Txns :
        (EmptyCreate(t) /\ req[t].client_id \in ClientIds
            /\ pc'[t] # pc[t] /\ outcome'[t].kind # "Cancelled") =>
            /\ pc[t] = "start" => pc'[t] = "validated" /\ db' = db
            /\ pc[t] = "validated" => pc'[t] = "flushed" /\ db' = db
            /\ pc[t] = "flushed" => pc'[t] = "returned" /\ db' = db
            /\ pc[t] = "returned" =>
                  /\ pc'[t] = "done"
                  /\ outcome'[t].kind = "ok"
                  /\ orders' = orders \cup {[id |-> order_db[t], client_id |-> req[t].client_id]}
                  /\ Cardinality(orders') = Cardinality(orders) + 1
                  /\ order_items' = order_items
                  /\ nomenclatures' = nomenclatures
            /\ pc[t] \in {"start", "validated", "flushed", "returned"}

\* C35: a create-full-order without lines never locks a nomenclature row,
\* never waits and never fails with a business error; for an existing client
\* it goes through every step to its commit, which adds one order with no
\* item and leaves every item and every nomenclature unchanged.
C35_EmptyOrderSucceeds == []C35_Inv /\ [][C35_Step]_vars

\* A create-full-order without lines has committed its order, which has no
\* item.
C35_Witness ==
    \E t \in Txns :
        /\ EmptyCreate(t)
        /\ pc[t] = "done"
        /\ outcome[t].kind = "ok"
        /\ OrderExists(outcome[t].order_id)
        /\ \A i \in 1..Len(order_items) : order_items[i].order_id # outcome[t].order_id

\* ----------------------------------------------------------------- C36
\* Request t is a get or a delete of the accessor and takes a step of its own
\* that is not a cancellation.
LookupStep(t) ==
    /\ req[t].op \in {"get", "delete"}
    /\ pc'[t] # pc[t]
    /\ outcome'[t].kind # "Cancelled"

C36_Step ==
    \A t \in Txns :
        LookupStep(t) =>
            LET rows == RowsById(req[t].model_id)
            IN /\ pc[t] = "start" =>
                     /\ db' = db
                     /\ IF rows = {}
                        THEN outcome'[t].result = None /\ order_db'[t] = 0
                        ELSE /\ outcome'[t].result = << CHOOSE r \in rows : TRUE >>
                             /\ order_db'[t] = IF req[t].op = "delete" THEN req[t].model_id ELSE 0
               /\ pc[t] = "returned" =>
                     /\ nomenclatures' = nomenclatures
                     /\ IF req[t].op = "delete" /\ outcome[t].result # None
                        THEN /\ orders' = orders \ {outcome[t].result[1]}
                             /\ outcome[t].result[1].id = req[t].model_id
                             /\ order_items' = ItemsWithoutOrder(req[t].model_id)
                        ELSE db' = db

RowsAfter(k, skip) == IF k >= skip THEN k - skip ELSE 0

C37_Step ==
    \A t \in Txns :
        (req[t].op = "get_multi" /\ pc'[t] # pc[t] /\ outcome'[t].kind # "Cancelled") =>
            /\ db' = db
            /\ session' = session
            /\ pc[t] = "start" =>
                  LET result == outcome'[t].result
                  IN /\ Len(result) <= req[t].limit
                     /\ Len(result) = Min(req[t].limit, RowsAfter(Cardinality(orders), req[t].skip))
                     /\ \A i \in 1..Len(result) : result[i] \in orders
                     /\ \A i, j \in 1..Len(result) : result[i] = result[j] => i = j

\* C37: get_multi(skip, limit) returns at most limit records, all of them
\* different rows of the table, as many as the limit and the rows left after
\* the skip allow, and neither the call nor the caller's commit after it
\* changes a table or marks anything in the session.
C37_GetMultiAtMostLimit == [][C37_Step]_vars

\* A get_multi with a skip has returned exactly limit rows of a table that
\* had more rows left.
C37_Witness ==
    \E t \in Txns :
        /\ req[t].op = "get_multi" /\ pc[t] = "done"
        /\ req[t].skip >= 1 /\ req[t].limit >= 1
        /\ Len(outcome[t].result) = req[t].limit
        /\ Cardinality(orders) > req[t].skip + req[t].limit
====
